---- MODULE Spec2Model ----
(***************************************************************************)
(* Model of the client-management application: pages that read and write   *)
(* the remote collections clients, tasks, timeTracking and invoices, the   *)
(* dashboard aggregation, the Reports page's fetches, the Time Tracking    *)
(* filter effect, the client-name helpers and the Register / Profile       *)
(* multi-step operations.                                                  *)
(***************************************************************************)
EXTENDS Integers, Sequences, FiniteSets, TLC

\* ------------------------------------------------------------------------
\* Bounds and small input sets
\* ------------------------------------------------------------------------
MaxDocs == 2                     \* documents the pages may create in one run

Users == {"A", "B"}
Null == "null"
Undef == "undefined"

Collections == {"clients", "tasks", "timeTracking", "invoices"}

\* Documents provisioned in the store before the run (for instance through
\* the backend console): a client of user A that carries a userId, which no
\* page writes.  User B starts with no document.
SeedClients ==
    { [id |-> 1, creator |-> "A", origin |-> "seed", userId |-> "A", name |-> "Acme"] }

SeedTasks ==
    { [id |-> 0, creator |-> "A", origin |-> "seed", userId |-> "A", clientId |-> 1,
       status |-> "Pending"] }

\* Form inputs
NameInputs == {"Acme"}
TaskStatusInputs == {"Pending"}
InvoiceStatusInputs == {"Paid", "Unpaid"}
ItemInputs == { <<[quantity |-> 2, rate |-> 5]>>,
                <<[quantity |-> 1, rate |-> 3], [quantity |-> 2, rate |-> 2]>> }
StartOfMonth == 0
MsPerMinute == 60000             \* times are milliseconds from the start of the month
StartInputs == {-600 * MsPerMinute, 60 * MsPerMinute}
LengthInputs == {0, 30000, 90 * MsPerMinute}     \* end - start of the form values
NowTime == 7200000               \* Timestamp.now() when a timer is started
StopInputs == {NowTime, NowTime + 150000}        \* Timestamp.now() when it is stopped

VARIABLES
    db,            \* the remote store: collection name -> set of documents
    nextId,        \* next document id handed out by addDoc
    user,          \* signed-in user of the browser session, or Null
    page,          \* mounted page
    clients,       \* the mounted page's clients state
    tasks,         \* the mounted page's tasks state
    timeEntries,   \* the Time Tracking page's timeEntries state
    invoices,      \* the Invoices page's invoices state
    activeTimer,   \* the Time Tracking page's activeTimer state (empty: null)
    stats,         \* the Dashboard page's stats state
    last,          \* the operation that ran last: its remote writes and failures
    \* Reports page
    dateRange,     \* selected date range
    selectedClient,\* selected client filter, or Undef
    rInvoices,     \* invoices state
    rTimeEntries,  \* timeEntries state
    rTasks,        \* tasks state
    rClients,      \* clients state
    inflight,      \* fetchAllData invocations with queries still unanswered
    dataLoading,   \* dataLoading flag
    rNotice,       \* notification shown last
    changes,       \* filter changes made so far
    anyFailed,     \* a Reports query has failed
    \* Time Tracking page: filtered view
    fEntries,      \* timeEntries state
    fTasks,        \* tasks state
    fClients,      \* clients state
    filteredEntries, \* filteredEntries state
    searchText,    \* search box text, a sequence of characters
    fDateRange,    \* date range filter: <<>> or <<start, end>>
    filterClient,  \* client filter: Undef or a client id
    filterTask,    \* task filter: Undef or a task id
    effectPending, \* the apply-filters effect is scheduled
    loads,         \* mount fetches still unanswered
    \* client names on display
    nClients,      \* the fetched client list
    nRecord,       \* the record on display: its clientId and stored clientName
    nPlace,        \* the place that rendered last
    nShown,        \* the text it rendered
    \* registration and profile
    aPage,         \* "register", "dashboard" or "profile"
    accounts,      \* e-mail addresses with an account
    authUser,      \* the signed-in auth user: empty or one record
    usersDocs,     \* the users collection
    storageFiles,  \* the uploaded profile pictures
    profile,       \* profile state: empty or one record
    displayName,   \* displayName field, a sequence of characters
    selectedFile,  \* selectedFile state: empty or one file
    regLoading,    \* loading flag of the Register page
    profLoading,   \* loading flag of the Profile page
    notice,        \* the notification shown last: empty or one record
    profMessage,   \* message state of the Profile page: empty or one record
    msgTimer,      \* the timer that clears the message is running
    pc,            \* the await the running handler is at, or "idle"
    held,          \* the values the running handler holds
    uploads,       \* uploads made so far
    aLast,         \* the handler that finished last and where it failed
    \* CSV exports
    csvData,       \* rows handed to exportToCSV: a sequence of rows of values
    xEntries,      \* filteredEntries handed to TimeTracking.handleExport
    csvText,       \* the text of the exported file
    csvOp          \* the export that ran last

reportVars == <<dateRange, selectedClient, rInvoices, rTimeEntries, rTasks,
                rClients, inflight, dataLoading, rNotice, changes, anyFailed>>

filterVars == <<fEntries, fTasks, fClients, filteredEntries, searchText, fDateRange,
                filterClient, filterTask, effectPending, loads>>

nameVars == <<nClients, nRecord, nPlace, nShown>>

accountVars == <<aPage, accounts, authUser, usersDocs, storageFiles, profile,
                 displayName, selectedFile, regLoading, profLoading, notice,
                 profMessage, msgTimer, pc, held, uploads, aLast>>

VARIABLES
    xpData,        \* the Reports page's invoices, timeEntries and tasks arrays
    xpTab,         \* the Reports page's activeTab
    xpLast         \* the last export of the Reports page and what it showed

csvVars == <<csvData, xEntries, csvText, csvOp, xpData, xpTab, xpLast>>

VARIABLES
    fbUser,        \* auth.currentUser of the Firebase session, or Null
    authEvents,    \* onAuthStateChanged callbacks not yet delivered
    ctxUser,      \* AuthProvider's user state
    ctxLoading,   \* AuthProvider's loading state
    mounted,       \* whether a ProtectedRoute is mounted
    checking,      \* ProtectedRoute's checking state
    effectDeps,    \* the [user, loading] the route's effect last ran with
    pushed,        \* who has called router.push('/login') since the mount
    visits,        \* protected pages opened so far
    authChanges    \* sign-ins and sign-outs so far

VARIABLES
    irInvoices,    \* the invoices prop of InvoicesReport
    irReport       \* what calculateReport returned for them, if it has run

VARIABLES
    trTasks,       \* the tasks prop of TasksReport
    trReport       \* what calculateReport and getTasksByClient returned for them

totalsVars == <<irInvoices, irReport, trTasks, trReport>>

routeVars == <<fbUser, authEvents, ctxUser, ctxLoading, mounted, checking,
               effectDeps, pushed, visits, authChanges>>

storeVars == <<db, nextId, user, page, clients, tasks, timeEntries, invoices,
               activeTimer, stats, last>>

\* each area's actions leave the state of the other areas alone
StoreOnly == UNCHANGED <<reportVars, filterVars, nameVars, accountVars, csvVars, routeVars,
                        totalsVars>>
ReportsOnly == UNCHANGED <<storeVars, filterVars, nameVars, accountVars, csvVars, routeVars,
                        totalsVars>>
FilterOnly == UNCHANGED <<storeVars, reportVars, nameVars, accountVars, csvVars, routeVars,
                        totalsVars>>
NamesOnly == UNCHANGED <<storeVars, reportVars, filterVars, accountVars, csvVars, routeVars,
                        totalsVars>>
AccountOnly == UNCHANGED <<storeVars, reportVars, filterVars, nameVars, csvVars, routeVars,
                        totalsVars>>
CsvOnly == UNCHANGED <<storeVars, reportVars, filterVars, nameVars, accountVars,
                        routeVars, totalsVars>>
RouteOnly == UNCHANGED <<storeVars, reportVars, filterVars, nameVars, accountVars,
                          csvVars, totalsVars>>
TotalsOnly == UNCHANGED <<storeVars, reportVars, filterVars, nameVars, accountVars,
                           csvVars, routeVars>>

\* ------------------------------------------------------------------------
\* The document store (the backend's API as the pages use it)
\* ------------------------------------------------------------------------
Has(d, f) == f \in DOMAIN d

UserIdOf(d) == IF Has(d, "userId") THEN d.userId ELSE Undef

\* where('userId', '==', uid)
whereUser(docs, uid) == { d \in docs : UserIdOf(d) = uid }

\* where(f, '==', v) on a string field
whereEq(docs, f, v) == { d \in docs : Has(d, f) /\ d[f] = v }

Exists(store, coll, id) == \E d \in store[coll] : d.id = id

addDoc(store, coll, data) == [store EXCEPT ![coll] = @ \cup {data}]

\* updateDoc replaces the fields of the patch and keeps every other field
updateDoc(store, coll, id, patch) ==
    [store EXCEPT ![coll] = { IF d.id = id THEN patch @@ d ELSE d : d \in @ }]

deleteDoc(store, coll, id) ==
    [store EXCEPT ![coll] = { d \in @ : d.id # id }]

\* ghost fields of a document created by a page on behalf of user u
Ghost(u) == [id |-> nextId, creator |-> u, origin |-> "app"]

ZeroStats == [totalClients |-> 0, activeTasks |-> 0, hoursTracked |-> 0,
              pendingInvoices |-> 0, pendingInvoicesAmount |-> 0]

NoOp == [op |-> "none", writes |-> <<>>, failed |-> {}, silent |-> {}]

Op(name, writes, failed, silent) ==
    [op |-> name, writes |-> writes, failed |-> failed, silent |-> silent]

Write(kind, coll, id) == [kind |-> kind, coll |-> coll, id |-> id]

\* an operation refused before any remote call, with the error it shows
Denied(name) == [notice |-> "error"] @@ Op(name, <<>>, {}, {})

\* an operation refused before any remote call, with the warning it shows
Warned(name) == [notice |-> "warning"] @@ Op(name, <<>>, {}, {})

\* a duration rounded up to whole minutes instead of down
DurationRoundedUp(start, end) == (end - start + MsPerMinute - 1) \div MsPerMinute

\* Math.floor((end - start) / 60000)
DurationMinutes(start, end) == (end - start) \div MsPerMinute

StoreInit ==
    /\ db = [c \in Collections |-> IF c = "clients" THEN SeedClients
                                   ELSE IF c = "tasks" THEN SeedTasks ELSE {}]
    /\ nextId = 2
    /\ user = Null
    /\ page = "login"
    /\ clients = {}
    /\ tasks = {}
    /\ timeEntries = {}
    /\ invoices = {}
    /\ activeTimer = {}
    /\ stats = ZeroStats
    /\ last = NoOp

\* ------------------------------------------------------------------------
\* Fetches (the documents each page's query returns)
\* ------------------------------------------------------------------------
ClientsFetchClients(store) == store["clients"]

TasksFetchClients(store, u) == whereUser(store["clients"], u)

TasksFetchTasks(store, u) == whereUser(store["tasks"], u)

TimeTrackingFetchClients(store) == store["clients"]

TimeTrackingFetchTasks(store) == store["tasks"]

TimeTrackingFetchTimeEntries(store, u) == whereUser(store["timeTracking"], u)

InvoicesFetchInvoices(store, u) == whereUser(store["invoices"], u)

InvoicesFetchClients(store, u) == whereUser(store["clients"], u)

\* entriesList.find((entry) => !entry.endTime) on a list ordered by createdAt
\* descending: the running entry created last
FindActive(entries) ==
    LET running == { e \in entries : ~Has(e, "endTime") }
    IN  { e \in running : \A f \in running : f.id <= e.id }

RECURSIVE SumField(_, _)
SumField(docs, f) ==
    IF docs = {} THEN 0
    ELSE LET d == CHOOSE x \in docs : TRUE
         IN  (IF Has(d, f) THEN d[f] ELSE 0) + SumField(docs \ {d}, f)

RECURSIVE SumAmounts(_)
SumAmounts(items) ==
    IF items = <<>> THEN 0
    ELSE Head(items).amount + SumAmounts(Tail(items))

\* line items whose amount is the rate alone
WithAmountsRateOnly(items) ==
    [i \in DOMAIN items |->
        [quantity |-> items[i].quantity, rate |-> items[i].rate,
         amount |-> items[i].rate]]

\* items.map(item => ({..., amount: item.quantity * item.rate}))
WithAmounts(items) ==
    [i \in DOMAIN items |->
        [quantity |-> items[i].quantity, rate |-> items[i].rate,
         amount |-> items[i].quantity * items[i].rate]]

\* Math.round(hoursTracked * 10) / 10: hours are kept in hundredths of an
\* hour, the rounded result in tenths
RoundTenths(hundredths) == (hundredths + 5) \div 10

\* ------------------------------------------------------------------------
\* Dashboard
\* ------------------------------------------------------------------------
\* the awaited queries of fetchDashboardData, in order
DashboardCalls == <<"clients", "activeTasks", "timeTracking", "pendingInvoices",
                    "projects", "activityLogs">>

\* the stats the dashboard computes from the documents it fetched
DashboardStats(store, u) ==
    LET logs    == { d \in whereUser(store["timeTracking"], u) :
                       Has(d, "date") /\ d.date >= StartOfMonth }
        pending == whereEq(whereUser(store["invoices"], u), "status", "unpaid")
    IN  [totalClients          |-> Cardinality(whereUser(store["clients"], u)),
         activeTasks           |-> Cardinality(whereEq(whereUser(store["tasks"], u),
                                                       "status", "active")),
         hoursTracked          |-> RoundTenths(SumField(logs, "hours")),
         pendingInvoices       |-> Cardinality(pending),
         pendingInvoicesAmount |-> SumField(pending, "total")]

\* fetchDashboardData: six awaited queries in one try block; setStats runs
\* after the fourth; the catch block only logs to the console
FetchDashboardData(u, failAt) ==
    /\ stats' = IF failAt = 0 \/ DashboardCalls[failAt] \in {"projects", "activityLogs"}
                THEN DashboardStats(db, u) ELSE ZeroStats
    /\ last' = Op("Dashboard.fetchDashboardData", <<>>,
                  IF failAt = 0 THEN {} ELSE {"Dashboard.getDocs"},
                  IF failAt = 0 THEN {} ELSE {"Dashboard.getDocs"})

ResetLists ==
    /\ clients' = {}
    /\ tasks' = {}
    /\ timeEntries' = {}
    /\ invoices' = {}
    /\ activeTimer' = {}

\* LoginPage.onFinish, then the redirect to the dashboard
Login(u, ok, failAt) ==
    /\ user = Null
    /\ IF ok
         THEN /\ user' = u
              /\ page' = "dashboard"
              /\ FetchDashboardData(u, failAt)
         ELSE /\ last' = Op("Login.onFinish", <<>>, {"signIn"}, {})
              /\ UNCHANGED <<user, page, stats>>
    /\ UNCHANGED <<db, nextId, clients, tasks, timeEntries, invoices, activeTimer>>

\* DashboardLayout.handleLogout
Logout(ok) ==
    /\ user # Null
    /\ IF ok
         THEN /\ user' = Null
              /\ page' = "login"
              /\ stats' = ZeroStats
              /\ ResetLists
              /\ last' = Op("DashboardLayout.handleLogout", <<>>, {}, {})
         ELSE /\ last' = Op("DashboardLayout.handleLogout", <<>>, {"signOut"}, {"signOut"})
              /\ UNCHANGED <<user, page, stats, clients, tasks, timeEntries,
                             invoices, activeTimer>>
    /\ UNCHANGED <<db, nextId>>

OpenDashboard(failAt) ==
    /\ user # Null
    /\ page' = "dashboard"
    /\ ResetLists
    /\ FetchDashboardData(user, failAt)
    /\ UNCHANGED <<db, nextId, user>>

\* Clients page mount: fetchClients
OpenClients(okC) ==
    /\ user # Null
    /\ page' = "clients"
    /\ clients' = IF okC THEN ClientsFetchClients(db) ELSE {}
    /\ tasks' = {} /\ timeEntries' = {} /\ invoices' = {} /\ activeTimer' = {}
    /\ stats' = ZeroStats
    /\ last' = Op("Clients.mount", <<>>,
                  IF okC THEN {} ELSE {"Clients.fetchClients"}, {})
    /\ UNCHANGED <<db, nextId, user>>

\* Tasks page mount: fetchClients and fetchTasks
OpenTasks(okC, okT) ==
    /\ user # Null
    /\ okC \/ okT
    /\ page' = "tasks"
    /\ clients' = IF okC THEN TasksFetchClients(db, user) ELSE {}
    /\ tasks' = IF okT THEN TasksFetchTasks(db, user) ELSE {}
    /\ timeEntries' = {} /\ invoices' = {} /\ activeTimer' = {}
    /\ stats' = ZeroStats
    /\ last' = Op("Tasks.mount", <<>>,
                  (IF okC THEN {} ELSE {"Tasks.fetchClients"})
                    \cup (IF okT THEN {} ELSE {"Tasks.fetchTasks"}), {})
    /\ UNCHANGED <<db, nextId, user>>

\* Time Tracking page mount: fetchClients, fetchTasks and fetchTimeEntries
OpenTimeTracking(okC, okT, okE) ==
    /\ user # Null
    /\ (okC /\ okT) \/ (okC /\ okE) \/ (okT /\ okE)
    /\ page' = "time"
    /\ clients' = IF okC THEN TimeTrackingFetchClients(db) ELSE {}
    /\ tasks' = IF okT THEN TimeTrackingFetchTasks(db) ELSE {}
    /\ timeEntries' = IF okE THEN TimeTrackingFetchTimeEntries(db, user) ELSE {}
    /\ activeTimer' = IF okE THEN FindActive(TimeTrackingFetchTimeEntries(db, user))
                      ELSE {}
    /\ invoices' = {}
    /\ stats' = ZeroStats
    /\ last' = Op("TimeTracking.mount", <<>>,
                  (IF okC THEN {} ELSE {"TimeTracking.fetchClients"})
                    \cup (IF okT THEN {} ELSE {"TimeTracking.fetchTasks"})
                    \cup (IF okE THEN {} ELSE {"TimeTracking.fetchTimeEntries"}), {})
    /\ UNCHANGED <<db, nextId, user>>

\* Invoices page mount: fetchInvoices and fetchClients
OpenInvoices(okI, okC) ==
    /\ user # Null
    /\ okI \/ okC
    /\ page' = "invoices"
    /\ invoices' = IF okI THEN InvoicesFetchInvoices(db, user) ELSE {}
    /\ clients' = IF okC THEN InvoicesFetchClients(db, user) ELSE {}
    /\ tasks' = {} /\ timeEntries' = {} /\ activeTimer' = {}
    /\ stats' = ZeroStats
    /\ last' = Op("Invoices.mount", <<>>,
                  (IF okI THEN {} ELSE {"Invoices.fetchInvoices"})
                    \cup (IF okC THEN {} ELSE {"Invoices.fetchClients"}), {})
    /\ UNCHANGED <<db, nextId, user>>

CanCreate == nextId < 2 + MaxDocs

Ids(docs) == { d.id : d \in docs }

\* ------------------------------------------------------------------------
\* Clients page
\* ------------------------------------------------------------------------
\* handleSubmit with editingClient = null: addDoc, then fetchClients
ClientsHandleSubmitAdd(name, ok) ==
    /\ page = "clients"
    /\ CanCreate
    /\ IF ok
         THEN /\ db' = addDoc(db, "clients", [name |-> name] @@ Ghost(user))
              /\ nextId' = nextId + 1
              /\ clients' = ClientsFetchClients(db')
              /\ last' = Op("Clients.handleSubmit",
                            <<Write("addDoc", "clients", nextId)>>,
                            {}, {})
         ELSE /\ last' = Op("Clients.handleSubmit",
                            <<Write("addDoc", "clients", nextId)>>, {"addDoc"}, {})
              /\ UNCHANGED <<db, nextId, clients>>
    /\ UNCHANGED <<user, page, tasks, timeEntries, invoices, activeTimer, stats>>

\* handleSubmit with editingClient = c: updateDoc of name, email, phone and
\* company, then fetchClients
ClientsHandleSubmitEdit(c, name, ok) ==
    /\ page = "clients"
    /\ c \in clients
    /\ IF ok /\ Exists(db, "clients", c.id)
         THEN /\ db' = updateDoc(db, "clients", c.id, [name |-> name])
              /\ clients' = ClientsFetchClients(db')
              /\ last' = Op("Clients.handleSubmit",
                            <<Write("updateDoc", "clients", c.id)>>,
                            {}, {})
         ELSE /\ last' = Op("Clients.handleSubmit",
                            <<Write("updateDoc", "clients", c.id)>>, {"updateDoc"}, {})
              /\ UNCHANGED <<db, clients>>
    /\ UNCHANGED <<nextId, user, page, tasks, timeEntries, invoices, activeTimer,
                   stats>>

\* a handleDelete that also removes the tasks of the deleted client
ClientsHandleDeleteCascade(c, ok) ==
    /\ page = "clients"
    /\ c \in clients
    /\ IF ok
         THEN /\ db' = [deleteDoc(db, "clients", c.id) EXCEPT
                          !["tasks"] = { t \in @ : t.clientId # c.id }]
              /\ clients' = ClientsFetchClients(db')
              /\ last' = Op("Clients.handleDelete",
                            <<Write("deleteDoc", "clients", c.id)>>, {}, {})
         ELSE /\ last' = Op("Clients.handleDelete",
                            <<Write("deleteDoc", "clients", c.id)>>, {"deleteDoc"}, {})
              /\ UNCHANGED <<db, clients>>
    /\ UNCHANGED <<nextId, user, page, tasks, timeEntries, invoices, activeTimer,
                   stats>>

\* handleDelete(clientId): deleteDoc, then fetchClients
ClientsHandleDelete(c, ok) ==
    /\ page = "clients"
    /\ c \in clients
    /\ IF ok
         THEN /\ db' = deleteDoc(db, "clients", c.id)
              /\ clients' = ClientsFetchClients(db')
              /\ last' = Op("Clients.handleDelete",
                            <<Write("deleteDoc", "clients", c.id)>>,
                            {}, {})
         ELSE /\ last' = Op("Clients.handleDelete",
                            <<Write("deleteDoc", "clients", c.id)>>, {"deleteDoc"}, {})
              /\ UNCHANGED <<db, clients>>
    /\ UNCHANGED <<nextId, user, page, tasks, timeEntries, invoices, activeTimer,
                   stats>>

\* ------------------------------------------------------------------------
\* Tasks page
\* ------------------------------------------------------------------------
\* the selected client is in the page's list and belongs to the user
ValidClient(cid) == \E c \in clients : c.id = cid /\ UserIdOf(c) = user

\* handleAddTask: client check, addDoc, then fetchTasks
HandleAddTask(cid, status, ok) ==
    /\ page = "tasks"
    /\ cid \in Ids(clients)
    /\ CanCreate
    /\ IF ~ValidClient(cid)
         THEN /\ last' = Denied("Tasks.handleAddTask")
              /\ UNCHANGED <<db, nextId, tasks>>
         ELSE IF ok
           THEN /\ db' = addDoc(db, "tasks",
                           [clientId |-> cid, status |-> status, userId |-> user]
                             @@ Ghost(user))
                /\ nextId' = nextId + 1
                /\ tasks' = TasksFetchTasks(db', user)
                /\ last' = Op("Tasks.handleAddTask",
                              <<Write("addDoc", "tasks", nextId)>>,
                              {}, {})
           ELSE /\ last' = Op("Tasks.handleAddTask",
                              <<Write("addDoc", "tasks", nextId)>>, {"addDoc"}, {})
                /\ UNCHANGED <<db, nextId, tasks>>
    /\ UNCHANGED <<user, page, clients, timeEntries, invoices, activeTimer, stats>>

\* handleEditTask: ownership check, client check, updateDoc, then fetchTasks
HandleEditTask(t, cid, status, ok) ==
    /\ page = "tasks"
    /\ t \in tasks
    /\ cid \in Ids(clients)
    /\ IF UserIdOf(t) # user \/ ~ValidClient(cid)
         THEN /\ last' = Denied("Tasks.handleEditTask")
              /\ UNCHANGED <<db, tasks>>
         ELSE IF ok /\ Exists(db, "tasks", t.id)
           THEN /\ db' = updateDoc(db, "tasks", t.id,
                                   [clientId |-> cid, status |-> status])
                /\ tasks' = TasksFetchTasks(db', user)
                /\ last' = Op("Tasks.handleEditTask",
                              <<Write("updateDoc", "tasks", t.id)>>,
                              {}, {})
           ELSE /\ last' = Op("Tasks.handleEditTask",
                              <<Write("updateDoc", "tasks", t.id)>>, {"updateDoc"}, {})
                /\ UNCHANGED <<db, tasks>>
    /\ UNCHANGED <<nextId, user, page, clients, timeEntries, invoices, activeTimer,
                   stats>>

\* handleDeleteTask(taskId): the ownership check applies only to a task
\* found in the local list; then deleteDoc and fetchTasks
HandleDeleteTask(taskId, ok) ==
    /\ page = "tasks"
    /\ LET taskToDelete == { t \in tasks : t.id = taskId }
       IN  IF taskToDelete # {} /\ \E t \in taskToDelete : UserIdOf(t) # user
             THEN /\ last' = Denied("Tasks.handleDeleteTask")
                  /\ UNCHANGED <<db, tasks>>
             ELSE IF ok
               THEN /\ db' = deleteDoc(db, "tasks", taskId)
                    /\ tasks' = TasksFetchTasks(db', user)
                    /\ last' = Op("Tasks.handleDeleteTask",
                                  <<Write("deleteDoc", "tasks", taskId)>>,
                                  {}, {})
               ELSE /\ last' = Op("Tasks.handleDeleteTask",
                                  <<Write("deleteDoc", "tasks", taskId)>>, {"deleteDoc"}, {})
                    /\ UNCHANGED <<db, tasks>>
    /\ UNCHANGED <<nextId, user, page, clients, timeEntries, invoices, activeTimer,
                   stats>>

\* ------------------------------------------------------------------------
\* Time Tracking page
\* ------------------------------------------------------------------------
\* what fetchTimeEntries stores after a write (or leaves when it fails)
RefetchEntries(store) ==
    /\ timeEntries' = TimeTrackingFetchTimeEntries(store, user)

\* handleStartTimer and the task selection modal's onOk: addDoc of an entry
\* without endTime, then fetchTimeEntries
StartTimer(taskId, ok) ==
    /\ page = "time"
    /\ taskId \in Ids(tasks)
    /\ CanCreate
    /\ IF activeTimer # {}
         THEN /\ last' = Warned("TimeTracking.handleStartTimer")
              /\ UNCHANGED <<db, nextId, timeEntries, activeTimer>>
         ELSE IF ok
           THEN /\ db' = addDoc(db, "timeTracking",
                           [taskId |-> taskId,
                            clientId |-> (CHOOSE t \in tasks : t.id = taskId).clientId,
                            startTime |-> NowTime, userId |-> user] @@ Ghost(user))
                /\ nextId' = nextId + 1
                /\ RefetchEntries(db')
                /\ activeTimer' =
                     FindActive(TimeTrackingFetchTimeEntries(db', user))
                /\ last' = Op("TimeTracking.showTimerModal",
                              <<Write("addDoc", "timeTracking", nextId)>>,
                              {}, {})
           ELSE /\ last' = Op("TimeTracking.showTimerModal",
                              <<Write("addDoc", "timeTracking", nextId)>>,
                              {"addDoc"}, {})
                /\ UNCHANGED <<db, nextId, timeEntries, activeTimer>>
    /\ UNCHANGED <<user, page, clients, tasks, invoices, stats>>

\* handleStopTimer: updateDoc of endTime and duration, setActiveTimer(null),
\* then fetchTimeEntries
HandleStopTimer(now, ok) ==
    /\ page = "time"
    /\ IF activeTimer = {}
         THEN /\ last' = Op("TimeTracking.handleStopTimer", <<>>, {}, {})
              /\ UNCHANGED <<db, timeEntries, activeTimer>>
         ELSE LET a == CHOOSE e \in activeTimer : TRUE
              IN IF ok /\ Exists(db, "timeTracking", a.id)
                   THEN /\ db' = updateDoc(db, "timeTracking", a.id,
                                   [endTime |-> now,
                                    duration |-> DurationMinutes(a.startTime, now)])
                        /\ RefetchEntries(db')
                        /\ activeTimer' =
                             FindActive(TimeTrackingFetchTimeEntries(db', user))
                        /\ last' = Op("TimeTracking.handleStopTimer",
                                      <<Write("updateDoc", "timeTracking", a.id)>>,
                                      {}, {})
                   ELSE /\ last' = Op("TimeTracking.handleStopTimer",
                                      <<Write("updateDoc", "timeTracking", a.id)>>,
                                      {"updateDoc"}, {})
                        /\ UNCHANGED <<db, timeEntries, activeTimer>>
    /\ UNCHANGED <<nextId, user, page, clients, tasks, invoices, stats>>

\* handleAddEntry: duration check, addDoc, then fetchTimeEntries
HandleAddEntry(taskId, cid, start, length, ok) ==
    /\ page = "time"
    /\ taskId \in Ids(tasks)
    /\ cid \in Ids(clients)
    /\ CanCreate
    /\ IF DurationMinutes(start, start + length) <= 0
         THEN /\ last' = Denied("TimeTracking.handleAddEntry")
              /\ UNCHANGED <<db, nextId, timeEntries, activeTimer>>
         ELSE IF ok
           THEN /\ db' = addDoc(db, "timeTracking",
                           [taskId |-> taskId, clientId |-> cid, startTime |-> start,
                            endTime |-> start + length,
                            duration |-> DurationMinutes(start, start + length),
                            userId |-> user] @@ Ghost(user))
                /\ nextId' = nextId + 1
                /\ RefetchEntries(db')
                /\ activeTimer' =
                     FindActive(TimeTrackingFetchTimeEntries(db', user))
                /\ last' = Op("TimeTracking.handleAddEntry",
                              <<Write("addDoc", "timeTracking", nextId)>>,
                              {}, {})
           ELSE /\ last' = Op("TimeTracking.handleAddEntry",
                              <<Write("addDoc", "timeTracking", nextId)>>,
                              {"addDoc"}, {})
                /\ UNCHANGED <<db, nextId, timeEntries, activeTimer>>
    /\ UNCHANGED <<user, page, clients, tasks, invoices, stats>>

\* handleEditEntry: duration check, updateDoc, then fetchTimeEntries
HandleEditEntry(e, taskId, cid, start, length, ok) ==
    /\ page = "time"
    /\ e \in timeEntries
    /\ taskId \in Ids(tasks)
    /\ cid \in Ids(clients)
    /\ IF DurationMinutes(start, start + length) <= 0
         THEN /\ last' = Denied("TimeTracking.handleEditEntry")
              /\ UNCHANGED <<db, timeEntries, activeTimer>>
         ELSE IF ok /\ Exists(db, "timeTracking", e.id)
           THEN /\ db' = updateDoc(db, "timeTracking", e.id,
                           [taskId |-> taskId, clientId |-> cid, startTime |-> start,
                            endTime |-> start + length,
                            duration |-> DurationMinutes(start, start + length)])
                /\ RefetchEntries(db')
                /\ activeTimer' =
                     FindActive(TimeTrackingFetchTimeEntries(db', user))
                /\ last' = Op("TimeTracking.handleEditEntry",
                              <<Write("updateDoc", "timeTracking", e.id)>>,
                              {}, {})
           ELSE /\ last' = Op("TimeTracking.handleEditEntry",
                              <<Write("updateDoc", "timeTracking", e.id)>>,
                              {"updateDoc"}, {})
                /\ UNCHANGED <<db, timeEntries, activeTimer>>
    /\ UNCHANGED <<nextId, user, page, clients, tasks, invoices, stats>>

\* handleDeleteEntry: deleteDoc, then fetchTimeEntries
HandleDeleteEntry(e, ok) ==
    /\ page = "time"
    /\ e \in timeEntries
    /\ IF ok
         THEN /\ db' = deleteDoc(db, "timeTracking", e.id)
              /\ RefetchEntries(db')
              /\ activeTimer' =
                   FindActive(TimeTrackingFetchTimeEntries(db', user))
              /\ last' = Op("TimeTracking.handleDeleteEntry",
                            <<Write("deleteDoc", "timeTracking", e.id)>>,
                            {}, {})
         ELSE /\ last' = Op("TimeTracking.handleDeleteEntry",
                            <<Write("deleteDoc", "timeTracking", e.id)>>,
                            {"deleteDoc"}, {})
              /\ UNCHANGED <<db, timeEntries, activeTimer>>
    /\ UNCHANGED <<nextId, user, page, clients, tasks, invoices, stats>>

\* ------------------------------------------------------------------------
\* Invoices page
\* ------------------------------------------------------------------------
\* generateInvoiceNumber: one more than the largest numeric suffix in the
\* page's invoices state (the INV- prefix and zero padding are left out)
generateInvoiceNumber ==
    LET nums == { i.invoiceNumber : i \in invoices }
    IN  (IF nums = {} THEN 0 ELSE CHOOSE n \in nums : \A m \in nums : m <= n) + 1

\* the invoiceData object handleSubmit builds
InvoiceData(number, cid, items, status) ==
    [userId |-> user, invoiceNumber |-> number, clientId |-> cid,
     items |-> WithAmounts(items), total |-> SumAmounts(WithAmounts(items)),
     status |-> status]

\* handleSubmit with editingInvoice = null: addDoc, then fetchInvoices
InvoicesHandleSubmitAdd(cid, items, status, ok) ==
    /\ page = "invoices"
    /\ cid \in Ids(clients)
    /\ CanCreate
    /\ IF ok
         THEN /\ db' = addDoc(db, "invoices",
                         InvoiceData(generateInvoiceNumber, cid, items, status)
                           @@ Ghost(user))
              /\ nextId' = nextId + 1
              /\ invoices' = InvoicesFetchInvoices(db', user)
              /\ last' = Op("Invoices.handleSubmit",
                            <<Write("addDoc", "invoices", nextId)>>,
                            {}, {})
         ELSE /\ last' = Op("Invoices.handleSubmit",
                            <<Write("addDoc", "invoices", nextId)>>, {"addDoc"}, {})
              /\ UNCHANGED <<db, nextId, invoices>>
    /\ UNCHANGED <<user, page, clients, tasks, timeEntries, activeTimer, stats>>

\* handleEdit then handleSubmit with editingInvoice = inv: ownership check,
\* updateDoc with the whole invoiceData, then fetchInvoices
InvoicesHandleSubmitEdit(inv, cid, items, status, ok) ==
    /\ page = "invoices"
    /\ inv \in invoices
    /\ cid \in Ids(clients)
    /\ IF UserIdOf(inv) # user
         THEN /\ last' = Denied("Invoices.handleEdit")
              /\ UNCHANGED <<db, invoices>>
         ELSE IF ok /\ Exists(db, "invoices", inv.id)
           THEN /\ db' = updateDoc(db, "invoices", inv.id,
                                   InvoiceData(inv.invoiceNumber, cid, items, status))
                /\ invoices' = InvoicesFetchInvoices(db', user)
                /\ last' = Op("Invoices.handleSubmit",
                              <<Write("updateDoc", "invoices", inv.id)>>,
                              {}, {})
           ELSE /\ last' = Op("Invoices.handleSubmit",
                              <<Write("updateDoc", "invoices", inv.id)>>,
                              {"updateDoc"}, {})
                /\ UNCHANGED <<db, invoices>>
    /\ UNCHANGED <<nextId, user, page, clients, tasks, timeEntries, activeTimer,
                   stats>>

\* handleDelete: ownership check, deleteDoc, then fetchInvoices
InvoicesHandleDelete(inv, ok) ==
    /\ page = "invoices"
    /\ inv \in invoices
    /\ IF UserIdOf(inv) # user
         THEN /\ last' = Denied("Invoices.handleDelete")
              /\ UNCHANGED <<db, invoices>>
         ELSE IF ok
           THEN /\ db' = deleteDoc(db, "invoices", inv.id)
                /\ invoices' = InvoicesFetchInvoices(db', user)
                /\ last' = Op("Invoices.handleDelete",
                              <<Write("deleteDoc", "invoices", inv.id)>>,
                              {}, {})
           ELSE /\ last' = Op("Invoices.handleDelete",
                              <<Write("deleteDoc", "invoices", inv.id)>>,
                              {"deleteDoc"}, {})
                /\ UNCHANGED <<db, invoices>>
    /\ UNCHANGED <<nextId, user, page, clients, tasks, timeEntries, activeTimer,
                   stats>>

\* handleStatusUpdate: ownership check, updateDoc of status, fetchInvoices
InvoicesHandleStatusUpdate(inv, status, ok) ==
    /\ page = "invoices"
    /\ inv \in invoices
    /\ IF UserIdOf(inv) # user
         THEN /\ last' = Denied("Invoices.handleStatusUpdate")
              /\ UNCHANGED <<db, invoices>>
         ELSE IF ok /\ Exists(db, "invoices", inv.id)
           THEN /\ db' = updateDoc(db, "invoices", inv.id, [status |-> status])
                /\ invoices' = InvoicesFetchInvoices(db', user)
                /\ last' = Op("Invoices.handleStatusUpdate",
                              <<Write("updateDoc", "invoices", inv.id)>>,
                              {}, {})
           ELSE /\ last' = Op("Invoices.handleStatusUpdate",
                              <<Write("updateDoc", "invoices", inv.id)>>,
                              {"updateDoc"}, {})
                /\ UNCHANGED <<db, invoices>>
    /\ UNCHANGED <<nextId, user, page, clients, tasks, timeEntries, activeTimer,
                   stats>>

\* ------------------------------------------------------------------------
\* The pages over the store
\* ------------------------------------------------------------------------
Next ==
    \/ \E u \in Users, ok \in BOOLEAN, failAt \in 0..6 : Login(u, ok, failAt) /\ StoreOnly
    \/ \E ok \in BOOLEAN : Logout(ok) /\ StoreOnly
    \/ \E failAt \in 0..6 : OpenDashboard(failAt) /\ StoreOnly
    \/ \E okC \in BOOLEAN : OpenClients(okC) /\ StoreOnly
    \/ \E okC, okT \in BOOLEAN : OpenTasks(okC, okT) /\ StoreOnly
    \/ \E okC, okT, okE \in BOOLEAN : OpenTimeTracking(okC, okT, okE) /\ StoreOnly
    \/ \E okI, okC \in BOOLEAN : OpenInvoices(okI, okC) /\ StoreOnly
    \/ \E name \in NameInputs, ok \in BOOLEAN :
          ClientsHandleSubmitAdd(name, ok) /\ StoreOnly
    \/ \E c \in clients, name \in NameInputs, ok \in BOOLEAN :
          ClientsHandleSubmitEdit(c, name, ok) /\ StoreOnly
    \/ \E c \in clients, ok \in BOOLEAN : ClientsHandleDelete(c, ok) /\ StoreOnly
    \/ \E cid \in Ids(clients), st \in TaskStatusInputs, ok \in BOOLEAN :
          HandleAddTask(cid, st, ok) /\ StoreOnly
    \/ \E t \in tasks, cid \in Ids(clients), st \in TaskStatusInputs,
          ok \in BOOLEAN : HandleEditTask(t, cid, st, ok) /\ StoreOnly
    \/ \E taskId \in Ids(tasks) \cup Ids(db["tasks"]), ok \in BOOLEAN :
          HandleDeleteTask(taskId, ok) /\ StoreOnly
    \/ \E taskId \in Ids(tasks), ok \in BOOLEAN : StartTimer(taskId, ok) /\ StoreOnly
    \/ \E now \in StopInputs, ok \in BOOLEAN : HandleStopTimer(now, ok) /\ StoreOnly
    \/ \E taskId \in Ids(tasks), cid \in Ids(clients), start \in StartInputs,
          length \in LengthInputs, ok \in BOOLEAN :
          HandleAddEntry(taskId, cid, start, length, ok) /\ StoreOnly
    \/ \E e \in timeEntries, taskId \in Ids(tasks), cid \in Ids(clients),
          start \in StartInputs, length \in LengthInputs, ok \in BOOLEAN :
          HandleEditEntry(e, taskId, cid, start, length, ok) /\ StoreOnly
    \/ \E e \in timeEntries, ok \in BOOLEAN : HandleDeleteEntry(e, ok) /\ StoreOnly
    \/ \E cid \in Ids(clients), items \in ItemInputs, st \in InvoiceStatusInputs,
          ok \in BOOLEAN : InvoicesHandleSubmitAdd(cid, items, st, ok) /\ StoreOnly
    \/ \E inv \in invoices, cid \in Ids(clients), items \in ItemInputs,
          st \in InvoiceStatusInputs, ok \in BOOLEAN :
          InvoicesHandleSubmitEdit(inv, cid, items, st, ok) /\ StoreOnly
    \/ \E inv \in invoices, ok \in BOOLEAN : InvoicesHandleDelete(inv, ok) /\ StoreOnly
    \/ \E inv \in invoices, st \in InvoiceStatusInputs, ok \in BOOLEAN :
          InvoicesHandleStatusUpdate(inv, st, ok) /\ StoreOnly

\* ------------------------------------------------------------------------
\* Reports page: overlapping fetches
\* ------------------------------------------------------------------------
MaxChanges == 1                  \* filter changes in one run

RangeInputs == { <<1, 2>>, <<2, 3>> }
ClientInputs == { Undef, "c1" }
ReportKinds == {"invoices", "timeTracking", "tasks", "clients"}

\* the store the Reports page reads: documents of the signed-in user A and
\* of another user, with the fields the pages write
ReportStore ==
    [clients      |-> { [id |-> "c1", userId |-> "A", name |-> "Acme"],
                        [id |-> "c2", userId |-> "A", name |-> "Bolt"] },
     invoices     |-> { [id |-> "i1", userId |-> "A", clientId |-> "c1", createdAt |-> 1],
                        [id |-> "i2", userId |-> "A", clientId |-> "c2", createdAt |-> 3],
                        [id |-> "i3", userId |-> "B", clientId |-> "c1", createdAt |-> 2] },
     tasks        |-> { [id |-> "t1", userId |-> "A", clientId |-> "c1", createdAt |-> 2],
                        [id |-> "t2", userId |-> "A", clientId |-> "c2", createdAt |-> 3] },
     timeTracking |-> { [id |-> "e1", userId |-> "A", clientId |-> "c1", startTime |-> 2]  }]

\* the signed-in user
ReportUser == "A"

\* the range field of each collection's query
RangeField(kind) == IF kind = "timeTracking" THEN "date" ELSE "createdAt"

\* the documents fetchInvoices / fetchTimeEntries / fetchTasks / fetchClients
\* get for a selection
ReportQuery(store, kind, u, range, client) ==
    IF kind = "clients" THEN whereUser(store["clients"], u)
    ELSE { d \in whereUser(store[kind], u) :
             /\ Has(d, RangeField(kind))
             /\ d[RangeField(kind)] >= range[1]
             /\ d[RangeField(kind)] <= range[2]
             /\ (client # Undef => d.clientId = client) }

\* fetchAllData: four queries that capture the selection of the render that
\* started them
Invocation(range, client) ==
    [range |-> range, client |-> client, pending |-> ReportKinds, settled |-> FALSE]

ReportsInit ==
    /\ dateRange = <<1, 2>>
    /\ selectedClient = Undef
    /\ rInvoices = {}
    /\ rTimeEntries = {}
    /\ rTasks = {}
    /\ rClients = {}
    /\ inflight = { Invocation(dateRange, selectedClient) }
    /\ dataLoading = TRUE
    /\ rNotice = "none"
    /\ changes = 0
    /\ anyFailed = FALSE

\* the fetch effect after a change of dateRange
SetDateRange(r) ==
    /\ changes < MaxChanges
    /\ r # dateRange
    /\ dateRange' = r
    /\ inflight' = inflight \cup { Invocation(r, selectedClient) }
    /\ dataLoading' = TRUE
    /\ changes' = changes + 1
    /\ UNCHANGED <<selectedClient, rInvoices, rTimeEntries, rTasks, rClients, rNotice,
                   anyFailed>>

\* the fetch effect after a change of selectedClient
SetSelectedClient(c) ==
    /\ changes < MaxChanges
    /\ c # selectedClient
    /\ selectedClient' = c
    /\ inflight' = inflight \cup { Invocation(dateRange, c) }
    /\ dataLoading' = TRUE
    /\ changes' = changes + 1
    /\ UNCHANGED <<dateRange, rInvoices, rTimeEntries, rTasks, rClients, rNotice,
                   anyFailed>>

\* what is left of an invocation once one of its queries is answered
Answered(inv, kind, settle) ==
    LET rest == [inv EXCEPT !.pending = @ \ {kind}, !.settled = @ \/ settle]
    IN  IF rest.pending = {} THEN inflight \ {inv}
        ELSE (inflight \ {inv}) \cup {rest}

\* a query of an invocation is answered: the setter of its kind runs with
\* the documents of the invocation's selection
Respond(inv, kind) ==
    /\ inv \in inflight
    /\ kind \in inv.pending
    /\ LET data == ReportQuery(ReportStore, kind, ReportUser, inv.range, inv.client)
           done == inv.pending = {kind} /\ ~inv.settled
       IN  /\ rInvoices' = IF kind = "invoices" THEN data ELSE rInvoices
           /\ rTimeEntries' = IF kind = "timeTracking" THEN data ELSE rTimeEntries
           /\ rTasks' = IF kind = "tasks" THEN data ELSE rTasks
           /\ rClients' = IF kind = "clients" THEN data ELSE rClients
           /\ inflight' = Answered(inv, kind, done)
           /\ dataLoading' = IF done THEN FALSE ELSE dataLoading
           /\ rNotice' = IF done THEN "Reports data loaded successfully" ELSE rNotice
    /\ UNCHANGED <<dateRange, selectedClient, changes, anyFailed>>

\* a query of an invocation fails: Promise.all rejects, the catch block
\* notifies; the other queries of the invocation stay in flight
RespondFail(inv, kind) ==
    /\ inv \in inflight
    /\ kind \in inv.pending
    /\ inflight' = Answered(inv, kind, TRUE)
    /\ dataLoading' = IF inv.settled THEN dataLoading ELSE FALSE
    /\ rNotice' = IF inv.settled THEN rNotice ELSE "Failed to load reports data"
    /\ anyFailed' = TRUE
    /\ UNCHANGED <<dateRange, selectedClient, rInvoices, rTimeEntries, rTasks,
                   rClients, changes>>

ReportsNext ==
    \/ \E r \in RangeInputs : SetDateRange(r) /\ ReportsOnly
    \/ \E c \in ClientInputs : SetSelectedClient(c) /\ ReportsOnly
    \/ \E inv \in inflight, kind \in ReportKinds : Respond(inv, kind) /\ ReportsOnly
    \/ \E inv \in inflight, kind \in ReportKinds : RespondFail(inv, kind) /\ ReportsOnly

ReportsIdle ==
    /\ dateRange = <<1, 2>>
    /\ selectedClient = Undef
    /\ rInvoices = {}
    /\ rTimeEntries = {}
    /\ rTasks = {}
    /\ rClients = {}
    /\ inflight = {}
    /\ dataLoading = FALSE
    /\ rNotice = "none"
    /\ changes = 0
    /\ anyFailed = FALSE

StoreIdle ==
    /\ db = [c \in Collections |-> {}]
    /\ user = Null
    /\ nextId = 2
    /\ page = "login"
    /\ clients = {}
    /\ tasks = {}
    /\ timeEntries = {}
    /\ invoices = {}
    /\ activeTimer = {}
    /\ stats = ZeroStats
    /\ last = NoOp

\* ------------------------------------------------------------------------
\* Time Tracking page: the filtered view
\* ------------------------------------------------------------------------
\* text is a sequence of characters
Lower(ch) ==
    CASE ch = "A" -> "a"
      [] ch = "F" -> "f"
      [] ch = "N" -> "n"
      [] OTHER -> ch

toLowerCase(s) == [i \in 1..Len(s) |-> Lower(s[i])]

includes(s, sub) ==
    \E i \in 0..(Len(s) - Len(sub)) : SubSeq(s, i + 1, i + Len(sub)) = sub

RECURSIVE trimStart(_)
trimStart(s) == IF s # <<>> /\ Head(s) = " " THEN trimStart(Tail(s)) ELSE s

RECURSIVE trimEnd(_)
trimEnd(s) ==
    IF s # <<>> /\ s[Len(s)] = " " THEN trimEnd(SubSeq(s, 1, Len(s) - 1)) ELSE s

trim(s) == trimEnd(trimStart(s))

UnknownText == <<"U", "n", "k", "n", "o", "w", "n">>

\* instants are a day and a time within the day
TimesOfDay == {0, 1, 2}
startOfDay(t) == [day |-> t.day, at |-> CHOOSE a \in TimesOfDay : \A b \in TimesOfDay : a <= b]
endOfDay(t) == [day |-> t.day, at |-> CHOOSE a \in TimesOfDay : \A b \in TimesOfDay : a >= b]
isBefore(a, b) == a.day < b.day \/ (a.day = b.day /\ a.at < b.at)
isAfter(a, b) == isBefore(b, a)

\* the store the Time Tracking page reads
FilterStore ==
    [clients      |-> { [id |-> "c1", name |-> <<"A", "c">>] },
     tasks        |-> { [id |-> "t1", title |-> <<"F", "i", "x">>, clientId |-> "c1"] },
     timeTracking |-> { [id |-> "e1", userId |-> "A", taskId |-> "t1", clientId |-> "c1",
                         startTime |-> [day |-> 1, at |-> 1], notes |-> <<"N", "b">>],
                        [id |-> "e2", userId |-> "A", taskId |-> "t9", clientId |-> "c9",
                         startTime |-> [day |-> 2, at |-> 0]] }]

SearchInputs == { <<>>, <<" ">>, <<"a">>, <<"F", "i">> }
DateRangeInputs == { <<>>, <<[day |-> 1, at |-> 2], [day |-> 1, at |-> 0]>> }
FilterClientInputs == { Undef, "c1" }
FilterTaskInputs == { Undef, "t1" }

\* the lists fetchClients and fetchTasks map out of the snapshot
FilterClientsList(store) ==
    { [id |-> d.id, name |-> IF Has(d, "name") /\ d.name # <<>> THEN d.name ELSE UnknownText] :
        d \in store["clients"] }

FilterTasksList(store) ==
    { [id |-> d.id, title |-> IF Has(d, "title") /\ d.title # <<>> THEN d.title ELSE UnknownText,
       clientId |-> d.clientId] : d \in store["tasks"] }

\* the search filter of applyFilters for one entry
MatchesSearch(entry, taskList, clientList, text) ==
    LET searchLower == toLowerCase(text)
    IN  \/ \E t \in taskList : t.id = entry.taskId /\ includes(toLowerCase(t.title), searchLower)
        \/ \E c \in clientList : c.id = entry.clientId /\ includes(toLowerCase(c.name), searchLower)
        \/ Has(entry, "notes") /\ includes(toLowerCase(entry.notes), searchLower)

applyFilters(entries, taskList, clientList, text, range, client, task) ==
    { e \in entries :
        /\ trim(text) # <<>> => MatchesSearch(e, taskList, clientList, text)
        /\ range # <<>> => /\ isAfter(e.startTime, startOfDay(range[1]))
                           /\ isBefore(e.startTime, endOfDay(range[2]))
        /\ client # Undef => e.clientId = client
        /\ task # Undef => e.taskId = task }

FilterInit ==
    /\ fEntries = {}
    /\ fTasks = {}
    /\ fClients = {}
    /\ filteredEntries = {}
    /\ searchText = <<>>
    /\ fDateRange = <<>>
    /\ filterClient = Undef
    /\ filterTask = Undef
    /\ effectPending = FALSE
    /\ loads = {"clients", "tasks", "timeTracking"}

\* fetchClients answers: setClients; no dependency of the effect changes
FilterClientsLoaded ==
    /\ "clients" \in loads
    /\ loads' = loads \ {"clients"}
    /\ fClients' = FilterClientsList(FilterStore)
    /\ UNCHANGED <<fEntries, fTasks, filteredEntries, searchText, fDateRange,
                   filterClient, filterTask, effectPending>>

\* fetchTasks answers: setTasks; no dependency of the effect changes
FilterTasksLoaded ==
    /\ "tasks" \in loads
    /\ loads' = loads \ {"tasks"}
    /\ fTasks' = FilterTasksList(FilterStore)
    /\ UNCHANGED <<fEntries, fClients, filteredEntries, searchText, fDateRange,
                   filterClient, filterTask, effectPending>>

\* fetchTimeEntries answers: setTimeEntries and setFilteredEntries
FilterEntriesLoaded ==
    /\ "timeTracking" \in loads
    /\ loads' = loads \ {"timeTracking"}
    /\ fEntries' = whereUser(FilterStore["timeTracking"], "A")
    /\ filteredEntries' = fEntries'
    /\ effectPending' = TRUE
    /\ UNCHANGED <<fTasks, fClients, searchText, fDateRange, filterClient, filterTask>>

SetSearchText(text) ==
    /\ text # searchText
    /\ searchText' = text
    /\ effectPending' = TRUE
    /\ UNCHANGED <<fEntries, fTasks, fClients, filteredEntries, fDateRange,
                   filterClient, filterTask, loads>>

SetFilterDateRange(range) ==
    /\ range # fDateRange
    /\ fDateRange' = range
    /\ effectPending' = TRUE
    /\ UNCHANGED <<fEntries, fTasks, fClients, filteredEntries, searchText,
                   filterClient, filterTask, loads>>

SetFilterClient(client) ==
    /\ client # filterClient
    /\ filterClient' = client
    /\ effectPending' = TRUE
    /\ UNCHANGED <<fEntries, fTasks, fClients, filteredEntries, searchText,
                   fDateRange, filterTask, loads>>

SetFilterTask(task) ==
    /\ task # filterTask
    /\ filterTask' = task
    /\ effectPending' = TRUE
    /\ UNCHANGED <<fEntries, fTasks, fClients, filteredEntries, searchText,
                   fDateRange, filterClient, loads>>

\* the apply-filters effect, run after a render in which one of
\* searchText, dateRange, filterClient, filterTask, timeEntries changed
ApplyFiltersEffect ==
    /\ effectPending
    /\ effectPending' = FALSE
    /\ filteredEntries' = applyFilters(fEntries, fTasks, fClients, searchText,
                                       fDateRange, filterClient, filterTask)
    /\ UNCHANGED <<fEntries, fTasks, fClients, searchText, fDateRange,
                   filterClient, filterTask, loads>>

FilterNext ==
    \/ FilterClientsLoaded /\ FilterOnly
    \/ FilterTasksLoaded /\ FilterOnly
    \/ FilterEntriesLoaded /\ FilterOnly
    \/ \E text \in SearchInputs : SetSearchText(text) /\ FilterOnly
    \/ \E range \in DateRangeInputs : SetFilterDateRange(range) /\ FilterOnly
    \/ \E client \in FilterClientInputs : SetFilterClient(client) /\ FilterOnly
    \/ \E task \in FilterTaskInputs : SetFilterTask(task) /\ FilterOnly
    \/ ApplyFiltersEffect /\ FilterOnly

FilterIdle ==
    /\ fEntries = {}
    /\ fTasks = {}
    /\ fClients = {}
    /\ filteredEntries = {}
    /\ searchText = <<>>
    /\ fDateRange = <<>>
    /\ filterClient = Undef
    /\ filterTask = Undef
    /\ effectPending = FALSE
    /\ loads = {}

\* ------------------------------------------------------------------------
\* Client names on display
\* ------------------------------------------------------------------------
\* the clients that have existed; the fetched list holds those not deleted
AllClients ==
    { [id |-> "c1", name |-> "Acme"],
      [id |-> "c2", name |-> "Bolt"],
      [id |-> "c3", name |-> "Core"] }

\* clients.find(c => c.id === clientId): the set is empty when none matches
find(list, clientId) == { c \in list : c.id = clientId }

NameOf(found) == (CHOOSE c \in found : TRUE).name

\* client?.name || fallback
NameOrElse(list, clientId, fallback) ==
    LET client == find(list, clientId)
    IN  IF client # {} /\ NameOf(client) # "" THEN NameOf(client) ELSE fallback

\* client ? client.name : fallback
NameIfFound(list, clientId, fallback) ==
    LET client == find(list, clientId)
    IN  IF client # {} THEN NameOf(client) ELSE fallback

TimeTrackingGetClientName(list, clientId) == NameOrElse(list, clientId, "Unknown Client")
TasksGetClientName(list, clientId) == NameOrElse(list, clientId, "Unknown Client")
TasksReportGetClientName(list, clientId) == NameIfFound(list, clientId, "Unknown Client")
TimeTrackingReportGetClientName(list, clientId) == NameIfFound(list, clientId, "Unknown Client")
InvoicesReportGetClientName(list, clientId) == NameIfFound(list, clientId, "Unknown Client")
getClientNameById(list, clientId) == NameIfFound(list, clientId, "Unknown Client")
generateInvoicesHTMLGetClientName(list, clientId) == NameIfFound(list, clientId, "Unknown")
generateTimeTrackingHTMLGetClientName(list, clientId) == NameIfFound(list, clientId, "Unknown")
generateTasksHTMLGetClientName(list, clientId) == NameIfFound(list, clientId, "Unknown")
generateInvoiceHTMLClient(list, clientId) == NameOrElse(list, clientId, "N/A")

\* the Client column of the Invoices table shows the stored clientName
InvoicesTableClient(record) == record.clientName

\* the dashboard's clientsMap lookup
DashboardClientName(list, clientId) ==
    LET clientsMap == { [id |-> c.id, name |-> IF c.name # "" THEN c.name ELSE "Unknown"] :
                          c \in list }
    IN  NameOrElse(clientsMap, clientId, "Unknown Client")

\* the text each place renders for a record
RenderedAt(place, list, record) ==
    CASE place = "TimeTracking.table" -> TimeTrackingGetClientName(list, record.clientId)
      [] place = "TimeTracking.handleExport" -> TimeTrackingGetClientName(list, record.clientId)
      [] place = "Tasks.table" -> TasksGetClientName(list, record.clientId)
      [] place = "TasksReport" -> TasksReportGetClientName(list, record.clientId)
      [] place = "TimeTrackingReport" -> TimeTrackingReportGetClientName(list, record.clientId)
      [] place = "InvoicesReport" -> InvoicesReportGetClientName(list, record.clientId)
      [] place = "exportToPDF.filter" -> getClientNameById(list, record.clientId)
      [] place = "generateInvoicesHTML" -> generateInvoicesHTMLGetClientName(list, record.clientId)
      [] place = "generateTimeTrackingHTML" ->
             generateTimeTrackingHTMLGetClientName(list, record.clientId)
      [] place = "generateTasksHTML" -> generateTasksHTMLGetClientName(list, record.clientId)
      [] place = "Invoices.generateInvoiceHTML" -> generateInvoiceHTMLClient(list, record.clientId)
      [] place = "Invoices.table" -> InvoicesTableClient(record)
      [] place = "Dashboard.projects" -> DashboardClientName(list, record.clientId)

PagePlaces == {"TimeTracking.table", "TimeTracking.handleExport", "Tasks.table",
               "Invoices.table", "Invoices.generateInvoiceHTML", "Dashboard.projects"}
ReportPlaces == {"TasksReport", "TimeTrackingReport", "InvoicesReport"}
GeneratorPlaces == {"exportToPDF.filter", "generateInvoicesHTML",
                    "generateTimeTrackingHTML", "generateTasksHTML"}

\* a record saved when its client existed; the fetched list is what is left
NamesInit ==
    /\ nClients \in SUBSET AllClients
    /\ nRecord \in { [clientId |-> c.id, clientName |-> c.name] : c \in AllClients }
    /\ nPlace = "none"
    /\ nShown = ""

Render(place) ==
    /\ nPlace' = place
    /\ nShown' = RenderedAt(place, nClients, nRecord)
    /\ UNCHANGED <<nClients, nRecord>>

NamesNext ==
    \/ \E place \in PagePlaces : Render(place) /\ NamesOnly
    \/ \E place \in ReportPlaces : Render(place) /\ NamesOnly
    \/ \E place \in GeneratorPlaces : Render(place) /\ NamesOnly

NamesIdle ==
    /\ nClients = {}
    /\ nRecord = [clientId |-> "c1", clientName |-> "Acme"]
    /\ nPlace = "none"
    /\ nShown = ""

\* ------------------------------------------------------------------------
\* Registration and profile: operations of several remote steps
\* ------------------------------------------------------------------------
MaxUploads == 1                  \* uploads in one run

MaxFileSize == 5 * 1024 * 1024

EmailInputs == {"a@x"}
DisplayNameInputs == { <<"A">>, <<" ", "A">> }
FileInputs == { [name |-> "a.png", size |-> MaxFileSize, type |-> "image/png"],
                [name |-> "b.png", size |-> MaxFileSize + 1, type |-> "image/png"],
                [name |-> "c.txt", size |-> 1, type |-> "text/plain"] }

\* the uid the auth service gives the account of an e-mail address
UidOf(email) == email

\* file.type.startsWith('image/')
IsImage(file) == file.type \in {"image/png"}

NoHeld == [email |-> "", photoURL |-> <<>>, displayName |-> <<>>, file |-> {}]
NoLast == [op |-> "none", failedAt |-> "none", uploaded |-> FALSE]

ErrorNotice(text) == { [type |-> "error", text |-> text] }
SuccessNotice(text) == { [type |-> "success", text |-> text] }

\* a || b on texts
OrText(a, b) == IF a # <<>> THEN a ELSE b

AccountInit ==
    /\ aPage = "register"
    /\ accounts = {}
    /\ authUser = {}
    /\ usersDocs = {}
    /\ storageFiles = {}
    /\ profile = {}
    /\ displayName = <<>>
    /\ selectedFile = {}
    /\ regLoading = FALSE
    /\ profLoading = FALSE
    /\ notice = {}
    /\ profMessage = {}
    /\ msgTimer = FALSE
    /\ pc = "idle"
    /\ held = NoHeld
    /\ uploads = 0
    /\ aLast = NoLast

\* RegisterPage.onFinish up to its first await
RegisterOnFinish(email, match) ==
    /\ aPage = "register"
    /\ pc = "idle"
    /\ IF ~match
       THEN /\ notice' = ErrorNotice("Passwords do not match")
            /\ UNCHANGED <<regLoading, pc, held>>
       ELSE /\ regLoading' = TRUE
            /\ pc' = "reg.create"
            /\ held' = [NoHeld EXCEPT !.email = email]
            /\ UNCHANGED notice
    /\ UNCHANGED <<aPage, accounts, authUser, usersDocs, storageFiles, profile,
                   displayName, selectedFile, profLoading, profMessage, msgTimer,
                   uploads, aLast>>

\* the catch and finally blocks of onFinish
RegisterCatch(step) ==
    /\ notice' = ErrorNotice("Registration failed")
    /\ regLoading' = FALSE
    /\ pc' = "idle"
    /\ held' = NoHeld
    /\ aLast' = [op |-> "Register.onFinish", failedAt |-> step, uploaded |-> FALSE]

\* await createUserWithEmailAndPassword
RegisterCreateUser(ok) ==
    /\ pc = "reg.create"
    /\ IF ok /\ held.email \notin accounts
       THEN /\ accounts' = accounts \cup {held.email}
            /\ authUser' = { [uid |-> UidOf(held.email), email |-> held.email,
                              displayName |-> <<>>, photoURL |-> <<>>] }
            /\ pc' = "reg.setDoc"
            /\ UNCHANGED <<notice, regLoading, held, aLast>>
       ELSE /\ RegisterCatch("createUser")
            /\ UNCHANGED <<accounts, authUser>>
    /\ UNCHANGED <<aPage, usersDocs, storageFiles, profile, displayName, selectedFile,
                   profLoading, profMessage, msgTimer, uploads>>

\* await setDoc(users/uid), then the success path
RegisterSetDoc(ok) ==
    /\ pc = "reg.setDoc"
    /\ IF ok
       THEN /\ usersDocs' = { d \in usersDocs : d.uid # UidOf(held.email) }
                              \cup { [uid |-> UidOf(held.email), email |-> held.email] }
            /\ notice' = SuccessNotice("Account created successfully!")
            /\ aPage' = "dashboard"
            /\ regLoading' = FALSE
            /\ pc' = "idle"
            /\ held' = NoHeld
            /\ aLast' = [op |-> "Register.onFinish", failedAt |-> "none", uploaded |-> FALSE]
       ELSE /\ RegisterCatch("setDoc")
            /\ UNCHANGED <<usersDocs, aPage>>
    /\ UNCHANGED <<accounts, authUser, storageFiles, profile, displayName, selectedFile,
                   profLoading, profMessage, msgTimer, uploads>>

\* the effect of RegisterPage that leaves for the dashboard once a user is
\* signed in
RegisterRedirect ==
    /\ aPage = "register"
    /\ authUser # {}
    /\ aPage' = "dashboard"
    /\ UNCHANGED <<accounts, authUser, usersDocs, storageFiles, profile, displayName,
                   selectedFile, regLoading, profLoading, notice, profMessage,
                   msgTimer, pc, held, uploads, aLast>>

\* the Profile page mounts: loadProfile
LoadProfile(ok) ==
    /\ aPage = "dashboard"
    /\ pc = "idle"
    /\ authUser # {}
    /\ aPage' = "profile"
    /\ LET u == CHOOSE a \in authUser : TRUE
           docs == { d \in usersDocs : d.uid = u.uid }
           data == CHOOSE d \in docs : TRUE
           profileData ==
               [uid |-> u.uid, email |-> u.email,
                displayName |-> IF docs # {} /\ Has(data, "displayName")
                                THEN OrText(data.displayName, u.displayName)
                                ELSE u.displayName,
                photoURL |-> IF docs # {} /\ Has(data, "photoURL")
                             THEN OrText(data.photoURL, u.photoURL)
                             ELSE u.photoURL]
       IN  IF ok
           THEN /\ profile' = {profileData}
                /\ displayName' = profileData.displayName
                /\ UNCHANGED profMessage
           ELSE /\ profMessage' = ErrorNotice("Failed to load profile")
                /\ UNCHANGED <<profile, displayName>>
    /\ selectedFile' = {}
    /\ UNCHANGED <<accounts, authUser, usersDocs, storageFiles, regLoading, profLoading,
                   notice, msgTimer, pc, held, uploads, aLast>>

\* ProfilePage.handleFileSelect
HandleFileSelect(file) ==
    /\ aPage = "profile"
    /\ pc = "idle"
    /\ IF file.size > MaxFileSize
       THEN /\ profMessage' = ErrorNotice("File size must be less than 5MB")
            /\ UNCHANGED selectedFile
       ELSE IF ~IsImage(file)
       THEN /\ profMessage' = ErrorNotice("Please select an image file")
            /\ UNCHANGED selectedFile
       ELSE /\ selectedFile' = {file}
            /\ UNCHANGED profMessage
    /\ UNCHANGED <<aPage, accounts, authUser, usersDocs, storageFiles, profile,
                   displayName, regLoading, profLoading, notice, msgTimer, pc, held,
                   uploads, aLast>>

\* the displayName input changes
SetDisplayName(name) ==
    /\ aPage = "profile"
    /\ pc = "idle"
    /\ name # displayName
    /\ displayName' = name
    /\ UNCHANGED <<aPage, accounts, authUser, usersDocs, storageFiles, profile,
                   selectedFile, regLoading, profLoading, notice, profMessage,
                   msgTimer, pc, held, uploads, aLast>>

\* ProfilePage.handleSubmit up to its first await
HandleSubmitStart ==
    /\ aPage = "profile"
    /\ pc = "idle"
    /\ authUser # {}
    /\ selectedFile # {} => uploads < MaxUploads
    /\ profLoading' = TRUE
    /\ profMessage' = {}
    /\ held' = [NoHeld EXCEPT
                  !.photoURL = IF profile # {} THEN (CHOOSE q \in profile : TRUE).photoURL
                               ELSE <<>>,
                  !.displayName = trim(displayName),
                  !.file = selectedFile]
    /\ pc' = IF selectedFile # {} THEN "prof.uploadBytes" ELSE "prof.updateProfile"
    /\ UNCHANGED <<aPage, accounts, authUser, usersDocs, storageFiles, profile,
                   displayName, selectedFile, regLoading, notice, msgTimer, uploads,
                   aLast>>

\* the catch and finally blocks of handleSubmit
ProfileCatch(step) ==
    /\ profMessage' = ErrorNotice("Failed to update profile")
    /\ profLoading' = FALSE
    /\ pc' = "idle"
    /\ held' = NoHeld
    /\ aLast' = [op |-> "Profile.handleSubmit", failedAt |-> step,
                 uploaded |-> held.file # {} /\ step # "uploadBytes"]

\* the path uploadImage stores the file under
StoragePath(file, n) == <<"profile-pictures", file.name, n>>

\* uploadImage: await uploadBytes
ProfileUploadBytes(ok) ==
    /\ pc = "prof.uploadBytes"
    /\ IF ok
       THEN /\ storageFiles' = storageFiles
                                 \cup { StoragePath(CHOOSE f \in held.file : TRUE, uploads) }
            /\ uploads' = uploads + 1
            /\ pc' = "prof.getDownloadURL"
            /\ UNCHANGED <<profMessage, profLoading, held, aLast>>
       ELSE /\ ProfileCatch("uploadBytes")
            /\ UNCHANGED <<storageFiles, uploads>>
    /\ UNCHANGED <<aPage, accounts, authUser, usersDocs, profile, displayName,
                   selectedFile, regLoading, notice, msgTimer>>

\* uploadImage: await getDownloadURL
ProfileGetDownloadURL(ok) ==
    /\ pc = "prof.getDownloadURL"
    /\ IF ok
       THEN /\ held' = [held EXCEPT
                          !.photoURL = StoragePath(CHOOSE f \in held.file : TRUE, uploads - 1)]
            /\ pc' = "prof.updateProfile"
            /\ UNCHANGED <<profMessage, profLoading, aLast>>
       ELSE ProfileCatch("getDownloadURL")
    /\ UNCHANGED <<aPage, accounts, authUser, usersDocs, storageFiles, profile,
                   displayName, selectedFile, regLoading, notice, msgTimer, uploads>>

\* await updateProfile(user, ...)
ProfileUpdateProfile(ok) ==
    /\ pc = "prof.updateProfile"
    /\ IF ok
       THEN /\ authUser' = { [a EXCEPT !.displayName = held.displayName,
                                       !.photoURL = held.photoURL] : a \in authUser }
            /\ pc' = "prof.setDoc"
            /\ UNCHANGED <<profMessage, profLoading, held, aLast>>
       ELSE /\ ProfileCatch("updateProfile")
            /\ UNCHANGED authUser
    /\ UNCHANGED <<aPage, accounts, usersDocs, storageFiles, profile, displayName,
                   selectedFile, regLoading, notice, msgTimer, uploads>>

\* the users document handleSubmit writes
UserDoc == LET u == CHOOSE a \in authUser : TRUE
           IN  [uid |-> u.uid, displayName |-> held.displayName, email |-> u.email,
                photoURL |-> held.photoURL]

\* setDoc(..., { merge: true })
MergeDoc(docs, new) ==
    LET old == { d \in docs : d.uid = new.uid }
    IN  (docs \ old) \cup { IF old = {} THEN new ELSE new @@ (CHOOSE d \in old : TRUE) }

\* a handleSubmit that sets the local profile whether or not setDoc succeeds
ProfileSetDocOptimistic(ok) ==
    /\ pc = "prof.setDoc"
    /\ profile' = {UserDoc}
    /\ IF ok
       THEN /\ usersDocs' = MergeDoc(usersDocs, UserDoc)
            /\ selectedFile' = {}
            /\ profMessage' = SuccessNotice("Profile updated successfully!")
            /\ msgTimer' = TRUE
            /\ profLoading' = FALSE
            /\ pc' = "idle"
            /\ held' = NoHeld
            /\ aLast' = [op |-> "Profile.handleSubmit", failedAt |-> "none",
                         uploaded |-> held.file # {}]
       ELSE /\ ProfileCatch("setDoc")
            /\ UNCHANGED <<usersDocs, selectedFile, msgTimer>>
    /\ UNCHANGED <<aPage, accounts, authUser, storageFiles, displayName, regLoading,
                   notice, uploads>>

\* await setDoc(users/uid), then the success path
ProfileSetDoc(ok) ==
    /\ pc = "prof.setDoc"
    /\ IF ok
       THEN /\ usersDocs' = MergeDoc(usersDocs, UserDoc)
            /\ profile' = {UserDoc}
            /\ selectedFile' = {}
            /\ profMessage' = SuccessNotice("Profile updated successfully!")
            /\ msgTimer' = TRUE
            /\ profLoading' = FALSE
            /\ pc' = "idle"
            /\ held' = NoHeld
            /\ aLast' = [op |-> "Profile.handleSubmit", failedAt |-> "none",
                         uploaded |-> held.file # {}]
       ELSE /\ ProfileCatch("setDoc")
            /\ UNCHANGED <<usersDocs, profile, selectedFile, msgTimer>>
    /\ UNCHANGED <<aPage, accounts, authUser, storageFiles, displayName, regLoading,
                   notice, uploads>>

\* the timer set on success fires: setMessage(null)
MessageTimeout ==
    /\ msgTimer
    /\ msgTimer' = FALSE
    /\ profMessage' = {}
    /\ UNCHANGED <<aPage, accounts, authUser, usersDocs, storageFiles, profile,
                   displayName, selectedFile, regLoading, profLoading, notice, pc,
                   held, uploads, aLast>>

AccountNext ==
    \/ \E email \in EmailInputs, match \in BOOLEAN :
          RegisterOnFinish(email, match) /\ AccountOnly
    \/ \E ok \in BOOLEAN : RegisterCreateUser(ok) /\ AccountOnly
    \/ \E ok \in BOOLEAN : RegisterSetDoc(ok) /\ AccountOnly
    \/ RegisterRedirect /\ AccountOnly
    \/ \E ok \in BOOLEAN : LoadProfile(ok) /\ AccountOnly
    \/ \E file \in FileInputs : HandleFileSelect(file) /\ AccountOnly
    \/ \E name \in DisplayNameInputs : SetDisplayName(name) /\ AccountOnly
    \/ HandleSubmitStart /\ AccountOnly
    \/ \E ok \in BOOLEAN : ProfileUploadBytes(ok) /\ AccountOnly
    \/ \E ok \in BOOLEAN : ProfileGetDownloadURL(ok) /\ AccountOnly
    \/ \E ok \in BOOLEAN : ProfileUpdateProfile(ok) /\ AccountOnly
    \/ \E ok \in BOOLEAN : ProfileSetDoc(ok) /\ AccountOnly
    \/ MessageTimeout /\ AccountOnly

AccountIdle ==
    /\ aPage = "register"
    /\ accounts = {}
    /\ authUser = {}
    /\ usersDocs = {}
    /\ storageFiles = {}
    /\ profile = {}
    /\ displayName = <<>>
    /\ selectedFile = {}
    /\ regLoading = FALSE
    /\ profLoading = FALSE
    /\ notice = {}
    /\ profMessage = {}
    /\ msgTimer = FALSE
    /\ pc = "idle"
    /\ held = NoHeld
    /\ uploads = 0
    /\ aLast = NoLast

\* ------------------------------------------------------------------------
\* CSV exports
\* ------------------------------------------------------------------------
MaxRows == 2                     \* rows or entries in one export

\* text is a sequence of characters; these are the ones CSV gives a meaning
Comma == ","
Quote == "\""
LF == "\n"
CR == "\r"

\* a value is empty (null or undefined) or holds one text
TextInputs == { <<>>, <<"a">>, <<Comma>>, <<Quote>>, <<LF>>, <<CR>> }
ValueInputs == { {} } \cup { {t} : t \in TextInputs }
CsvHeaders == << <<"k">>, <<"m">> >>
RowInputs == { <<v, w>> : v \in ValueInputs, w \in { {}, {<<"a">>}, {<<Comma>>} } }

\* String(value ?? '')
StringOf(value) == IF value = {} THEN <<>> ELSE CHOOSE t \in value : TRUE

Contains(s, ch) == \E i \in 1..Len(s) : s[i] = ch

\* stringValue.replace(/"/g, '""')
RECURSIVE DoubleQuotes(_)
DoubleQuotes(s) ==
    IF s = <<>> THEN <<>>
    ELSE (IF Head(s) = Quote THEN <<Quote, Quote>> ELSE <<Head(s)>>) \o DoubleQuotes(Tail(s))

\* Array.prototype.join
RECURSIVE join(_, _)
join(parts, sep) ==
    IF parts = <<>> THEN <<>>
    ELSE IF Len(parts) = 1 THEN parts[1]
    ELSE parts[1] \o <<sep>> \o join(Tail(parts), sep)

\* one field of exportToCSV
CsvField(value) ==
    LET stringValue == StringOf(value)
    IN  IF Contains(stringValue, Comma) \/ Contains(stringValue, Quote)
           \/ Contains(stringValue, LF)
        THEN <<Quote>> \o DoubleQuotes(stringValue) \o <<Quote>>
        ELSE stringValue

\* csvContent of exportToCSV; the headers are the keys of the first row
CsvContent(headers, data) ==
    join(<<join(headers, Comma)>>
           \o [r \in 1..Len(data) |->
                 join([h \in 1..Len(headers) |-> CsvField(data[r][h])], Comma)],
         LF)

\* exportToCSV: nothing is written for an empty array
ExportToCSV ==
    /\ csvOp = "none"
    /\ xEntries = <<>>
    /\ IF Len(csvData) = 0
       THEN /\ csvOp' = "exportToCSV.empty"
            /\ csvText' = <<>>
       ELSE /\ csvOp' = "exportToCSV"
            /\ csvText' = CsvContent(CsvHeaders, csvData)
    /\ UNCHANGED <<csvData, xEntries, xpData, xpTab, xpLast>>

\* the lookup lists of the Time Tracking page at the time of the export
ExportTasks ==
    { [id |-> "t1", title |-> <<"a">>],
      [id |-> "t2", title |-> <<"a", Comma, "b">>],
      [id |-> "t3", title |-> <<"a", LF, "b">>] }
ExportClients == { [id |-> "c1", name |-> <<"A", "c">>] }

UnknownTaskText == <<"U", "n", "k", "n", "o", "w", "n", " ", "T", "a", "s", "k">>
UnknownClientText == <<"U", "n", "k", "n", "o", "w", "n", " ", "C", "l", "i", "e", "n", "t">>
RunningText == <<"R", "u", "n", "n", "i", "n", "g">>

\* entries of the filtered list: a running one has neither endTime nor duration
EntryInputs ==
    { [taskId |-> t, clientId |-> c, startTime |-> 540, notes |-> n] @@ timing :
        t \in {"t1", "t2", "t3", "t9"}, c \in {"c1"},
        n \in { {}, {<<Quote, "a">>} },
        timing \in { <<>>, [endTime |-> 630, duration |-> 90] } }

getTaskName(taskList, taskId) ==
    LET task == { t \in taskList : t.id = taskId }
    IN  IF task # {} /\ (CHOOSE t \in task : TRUE).title # <<>>
        THEN (CHOOSE t \in task : TRUE).title ELSE UnknownTaskText

getClientNameText(clientList, clientId) ==
    LET client == { c \in clientList : c.id = clientId }
    IN  IF client # {} /\ (CHOOSE c \in client : TRUE).name # <<>>
        THEN (CHOOSE c \in client : TRUE).name ELSE UnknownClientText

Digits == <<"0", "1", "2", "3", "4", "5", "6", "7", "8", "9">>

\* String(n) of a natural number
RECURSIVE Decimal(_)
Decimal(n) == IF n < 10 THEN <<Digits[n + 1]>> ELSE Decimal(n \div 10) \o <<Digits[(n % 10) + 1]>>

\* padStart(2, '0')
Pad2(n) == IF n < 10 THEN <<"0">> \o Decimal(n) ELSE Decimal(n)

\* dayjs(t).format('YYYY-MM-DD HH:mm'); t counts the minutes of one day, whose
\* date is the same text for every entry
FormatTime(t) == <<"D", " ">> \o Pad2(t \div 60) \o <<":">> \o Pad2(t % 60)

\* formatDuration
formatDuration(minutes) ==
    Decimal(minutes \div 60) \o <<"h", " ">> \o Decimal(minutes % 60) \o <<"m">>

ExportColumns == << <<"T">>, <<"C">>, <<"S">>, <<"E">>, <<"D">>, <<"N">> >>

\* one line of TimeTracking.handleExport
ExportLine(entry) ==
    join(<< getTaskName(ExportTasks, entry.taskId),
            getClientNameText(ExportClients, entry.clientId),
            FormatTime(entry.startTime),
            IF Has(entry, "endTime") THEN FormatTime(entry.endTime) ELSE RunningText,
            IF Has(entry, "duration") /\ entry.duration # 0
            THEN formatDuration(entry.duration) ELSE <<"-">>,
            StringOf(entry.notes) >>, Comma)

\* TimeTracking.handleExport
HandleExport ==
    /\ csvOp = "none"
    /\ csvData = <<>>
    /\ csvOp' = "TimeTracking.handleExport"
    /\ csvText' = join(<<join(ExportColumns, Comma)>>
                         \o [i \in 1..Len(xEntries) |-> ExportLine(xEntries[i])], LF)
    /\ UNCHANGED <<csvData, xEntries, xpData, xpTab, xpLast>>

\* sequences of at most n elements of a set
SeqsUpTo(S, n) == UNION { [1..k -> S] : k \in 0..n }

\* ------------------------------------------------------------------------
\* Reports page: handleExportCSV, handleExportPDF and exportToPDF
\* ------------------------------------------------------------------------
MaxItems == 2
PdfToday == 2

ExportKinds == {"invoices", "time", "tasks"}

\* the field each report's table is ordered by
SortField(kind) ==
    IF kind = "invoices" THEN "createdAt" ELSE IF kind = "time" THEN "date" ELSE "dueDate"

\* the documents a fetch can return for one array, in the order returned
ExportItemInputs(kind) ==
    { [id |-> i, status |-> "pending"] @@ (SortField(kind) :> d) : i \in 1..MaxItems, d \in {1, 3} }

ExportArrayInputs(kind) ==
    { a \in SeqsUpTo(ExportItemInputs(kind), MaxItems) :
        \A i, j \in DOMAIN a : a[i].id = a[j].id => i = j }

\* useState([]) for each array, useState('invoices') for the tab
ExportInit ==
    /\ xpData = [kind \in ExportKinds |-> <<>>]
    /\ xpTab = "invoices"
    /\ xpLast = [op |-> "none", exported |-> FALSE, notice |-> "none"]

\* setInvoices, setTimeEntries or setTasks with fetched data
ExportSetData(kind, array) ==
    /\ xpData[kind] # array
    /\ xpData' = [xpData EXCEPT ![kind] = array]
    /\ UNCHANGED <<xpTab, xpLast>>

\* Tabs onChange
SetActiveTab(tab) ==
    /\ tab # xpTab
    /\ xpTab' = tab
    /\ UNCHANGED <<xpData, xpLast>>

\* handleExportCSV: exportToCSV(data, filename) downloads unless data is
\* empty; message.success follows the call
HandleExportCSV ==
    /\ xpLast' = [op |-> "handleExportCSV",
                  exported |-> Len(xpData[xpTab]) # 0,
                  notice |-> "CSV exported successfully"]
    /\ UNCHANGED <<xpData, xpTab>>

\* isOverdue(task)
isOverdue(task) == task.status = "pending" /\ task.dueDate < PdfToday

\* the comparators of the three reports as a key to order by: invoices and
\* time entries newest first; tasks Overdue first, then by due date
SortKey(kind, item) ==
    IF kind = "tasks"
      THEN (IF isOverdue(item) THEN 0 ELSE 10) + item.dueDate
      ELSE 0 - item[SortField(kind)]

\* Array.prototype.sort: a stable sort in place, smaller keys first
SortInPlace(kind, array) ==
    LET n == Len(array)
        Rank(i) == 1 + Cardinality({ j \in 1..n :
                      \/ SortKey(kind, array[j]) < SortKey(kind, array[i])
                      \/ SortKey(kind, array[j]) = SortKey(kind, array[i]) /\ j < i })
    IN  [p \in 1..n |-> array[CHOOSE i \in 1..n : Rank(i) = p]]

\* handleExportPDF: exportToPDF sorts the active report's array while it
\* generates the table, then window.open gives a window or null;
\* message.success follows the call
HandleExportPDF(opened) ==
    /\ xpData' = [xpData EXCEPT ![xpTab] = SortInPlace(xpTab, xpData[xpTab])]
    /\ xpLast' = [op |-> "handleExportPDF", exported |-> opened,
                  notice |-> "PDF exported successfully"]
    /\ UNCHANGED xpTab

ExportFrame == UNCHANGED <<csvData, xEntries, csvText, csvOp>>

ExportNext ==
    \/ \E kind \in ExportKinds : \E array \in ExportArrayInputs(kind) :
          ExportSetData(kind, array) /\ ExportFrame /\ CsvOnly
    \/ \E tab \in ExportKinds : SetActiveTab(tab) /\ ExportFrame /\ CsvOnly
    \/ HandleExportCSV /\ ExportFrame /\ CsvOnly
    \/ \E opened \in BOOLEAN : HandleExportPDF(opened) /\ ExportFrame /\ CsvOnly

CsvInit ==
    /\ \/ csvData \in SeqsUpTo(RowInputs, MaxRows) /\ xEntries = <<>>
       \/ xEntries \in SeqsUpTo(EntryInputs, MaxRows) /\ csvData = <<>>
    /\ csvText = <<>>
    /\ csvOp = "none"
    /\ ExportInit

CsvNext ==
    \/ ExportToCSV /\ CsvOnly
    \/ HandleExport /\ CsvOnly

CsvIdle ==
    /\ csvData = <<>>
    /\ xEntries = <<>>
    /\ csvText = <<>>
    /\ csvOp = "none"
    /\ ExportInit

\* ------------------------------------------------------------------------
\* Specifications
\* ------------------------------------------------------------------------
\* ------------------------------------------------------------------------
\* AuthProvider and ProtectedRoute
\* ------------------------------------------------------------------------
MaxVisits == 2
MaxAuthChanges == 2

\* a session restored by Firebase, or none; onAuthStateChanged delivers the
\* current user once after the subscription
RouteInit ==
    /\ fbUser \in Users \cup {Null}
    /\ authEvents = <<fbUser>>
    /\ ctxUser = Null
    /\ ctxLoading = TRUE
    /\ mounted = FALSE
    /\ checking = TRUE
    /\ effectDeps = <<"none", TRUE>>
    /\ pushed = {}
    /\ visits = 0
    /\ authChanges = 0

\* the login page's signInWithEmailAndPassword
RouteSignIn(u) ==
    /\ ~mounted
    /\ fbUser = Null
    /\ authChanges < MaxAuthChanges
    /\ fbUser' = u
    /\ authEvents' = Append(authEvents, u)
    /\ authChanges' = authChanges + 1
    /\ UNCHANGED <<ctxUser, ctxLoading, mounted, checking, effectDeps, pushed, visits>>

\* Layout.handleLogout: signOut, then router.push('/login'); a failed
\* signOut changes nothing
RouteHandleLogout(ok) ==
    /\ mounted
    /\ fbUser # Null
    /\ authChanges < MaxAuthChanges
    /\ IF ok
         THEN /\ fbUser' = Null
              /\ authEvents' = Append(authEvents, Null)
              /\ pushed' = pushed \cup {"handleLogout"}
         ELSE UNCHANGED <<fbUser, authEvents, pushed>>
    /\ authChanges' = authChanges + 1
    /\ UNCHANGED <<ctxUser, ctxLoading, mounted, checking, effectDeps, visits>>

\* the onAuthStateChanged callback: setUser(currentUser); setLoading(false)
OnAuthStateChanged ==
    /\ authEvents # <<>>
    /\ ctxUser' = Head(authEvents)
    /\ ctxLoading' = FALSE
    /\ authEvents' = Tail(authEvents)
    /\ UNCHANGED <<fbUser, mounted, checking, effectDeps, pushed, visits, authChanges>>

\* a protected page is opened: ProtectedRoute mounts with checking = true
RouteMount ==
    /\ ~mounted
    /\ visits < MaxVisits
    /\ mounted' = TRUE
    /\ checking' = TRUE
    /\ effectDeps' = <<"none", TRUE>>
    /\ pushed' = {}
    /\ visits' = visits + 1
    /\ UNCHANGED <<fbUser, authEvents, ctxUser, ctxLoading, authChanges>>

\* ProtectedRoute's effect, run after a render in which [user, loading]
\* differ from the ones it last ran with
RouteEffect ==
    /\ mounted
    /\ effectDeps # <<ctxUser, ctxLoading>>
    /\ effectDeps' = <<ctxUser, ctxLoading>>
    /\ IF ~ctxLoading
         THEN /\ pushed' = IF ctxUser = Null THEN pushed \cup {"ProtectedRoute"}
                                              ELSE pushed
              /\ checking' = FALSE
         ELSE UNCHANGED <<pushed, checking>>
    /\ UNCHANGED <<fbUser, authEvents, ctxUser, ctxLoading, mounted, visits,
                   authChanges>>

\* the router completes a push to /login: the protected page is left
RouteNavigate ==
    /\ mounted
    /\ pushed # {}
    /\ mounted' = FALSE
    /\ pushed' = {}
    /\ UNCHANGED <<fbUser, authEvents, ctxUser, ctxLoading, checking, effectDeps,
                   visits, authChanges>>

\* a ProtectedRoute that returns its children whenever it is not waiting
RouteRenderUnguarded ==
    IF ~mounted THEN "unmounted"
    ELSE IF ctxLoading \/ checking THEN "spinner"
    ELSE "children"

\* what ProtectedRoute returns
RouteRender ==
    IF ~mounted THEN "unmounted"
    ELSE IF ctxLoading \/ checking THEN "spinner"
    ELSE IF ctxUser # Null THEN "children"
    ELSE "null"

RouteNext ==
    \/ \E u \in Users : RouteSignIn(u) /\ RouteOnly
    \/ \E ok \in BOOLEAN : RouteHandleLogout(ok) /\ RouteOnly
    \/ OnAuthStateChanged /\ RouteOnly
    \/ RouteMount /\ RouteOnly
    \/ RouteEffect /\ RouteOnly
    \/ RouteNavigate /\ RouteOnly

RouteIdle ==
    /\ fbUser = Null
    /\ authEvents = <<>>
    /\ ctxUser = Null
    /\ ctxLoading = TRUE
    /\ mounted = FALSE
    /\ checking = TRUE
    /\ effectDeps = <<"none", TRUE>>
    /\ pushed = {}
    /\ visits = 0
    /\ authChanges = 0

\* ------------------------------------------------------------------------
\* InvoicesReport
\* ------------------------------------------------------------------------
MaxInvoices == 2

\* JavaScript numbers: an integer or NaN
Num(n) == [nan |-> FALSE, val |-> n]
NaN == [nan |-> TRUE, val |-> 0]

\* a + b
JsAdd(a, b) == IF a.nan \/ b.nan THEN NaN ELSE Num(a.val + b.val)

\* a === b (NaN equals nothing)
JsEq(a, b) == ~a.nan /\ ~b.nan /\ a.val = b.val

\* inv.amount as an operand of +: a missing field is undefined, and a number
\* plus undefined is NaN
AmountOperand(inv) == IF Has(inv, "amount") THEN Num(inv.amount) ELSE NaN

\* invoices.reduce((sum, inv) => sum + inv.amount, 0)
RECURSIVE ReduceAmount(_)
ReduceAmount(invs) ==
    IF invs = {} THEN Num(0)
    ELSE LET inv == CHOOSE x \in invs : TRUE
         IN  JsAdd(ReduceAmount(invs \ {inv}), AmountOperand(inv))

\* InvoicesReport.calculateReport
calculateReport(invs) ==
    [total   |-> ReduceAmount(invs),
     paid    |-> ReduceAmount({ inv \in invs : inv.status = "paid" }),
     unpaid  |-> ReduceAmount({ inv \in invs : inv.status = "unpaid" }),
     Overdue |-> ReduceAmount({ inv \in invs : inv.status = "Overdue" })]

\* the statuses the Invoices page stores
PageStatusInputs == {"Paid", "Unpaid", "Overdue"}

\* a record the Invoices page's handleSubmit stored for ReportUser, as the
\* report's query returns it ({id: doc.id, ...doc.data()})
PageInvoice(id, cid, items, status) ==
    [id |-> id] @@ [InvoiceData(id, cid, items, status) EXCEPT !.userId = ReportUser]

\* what the form of one invoice held
PageFormInputs == {"c1", "c2"} \X ItemInputs \X PageStatusInputs

\* the lists of at most MaxInvoices invoices the report can be given
PageInvoiceSets ==
    UNION { { { PageInvoice(id, f[id][1], f[id][2], f[id][3]) : id \in ids } :
                f \in [ids -> PageFormInputs] } :
            ids \in SUBSET (1..MaxInvoices) }

\* the Reports page starts with useState<Invoice[]>([])
TotalsInit ==
    /\ irInvoices = {}
    /\ irReport = {}
    /\ trTasks = {}
    /\ trReport = {}

\* a render of InvoicesReport: const report = calculateReport()
InvoicesReportRender ==
    /\ irReport' = { calculateReport(irInvoices) }
    /\ UNCHANGED <<irInvoices, trTasks, trReport>>

\* the Reports page passes a newly fetched list
InvoicesReportProps(invs) ==
    /\ invs # irInvoices
    /\ irInvoices' = invs
    /\ irReport' = {}
    /\ UNCHANGED <<trTasks, trReport>>

TotalsNext ==
    \/ InvoicesReportRender /\ TotalsOnly
    \/ \E invs \in PageInvoiceSets : InvoicesReportProps(invs) /\ TotalsOnly

TotalsIdle ==
    /\ irInvoices = {}
    /\ irReport = {}
    /\ trTasks = {}
    /\ trReport = {}

\* ------------------------------------------------------------------------
\* TasksReport
\* ------------------------------------------------------------------------
MaxTasks == 3

\* the statuses the Tasks page stores
PageTaskStatusInputs == {"Pending", "In Progress", "Completed"}

\* a record the Tasks page's handleAddTask stored for ReportUser, as the
\* report's query returns it
PageTask(id, cid, status) ==
    [id |-> id, clientId |-> cid, status |-> status, userId |-> ReportUser]

\* the lists of at most MaxTasks tasks the report can be given
PageTaskSets ==
    UNION { { { PageTask(id, f[id][1], f[id][2]) : id \in ids } :
                f \in [ids -> {"c1", "c2"} \X PageTaskStatusInputs] } :
            ids \in SUBSET (1..MaxTasks) }

\* tasks.filter(task => task.status === status).length
CountStatus(list, status) == Cardinality({ task \in list : task.status = status })

\* TasksReport.calculateReport
TasksCalculateReport(list) ==
    [total     |-> Cardinality(list),
     completed |-> CountStatus(list, "completed"),
     pending   |-> CountStatus(list, "pending")]

\* TasksReport.getTasksByClient: one group per clientId; only the counters
\* completed and pending enter the group's total
getTasksByClient(list) ==
    { LET mine == { task \in list : task.clientId = cid }
      IN  [clientId  |-> cid,
           completed |-> CountStatus(mine, "completed"),
           pending   |-> CountStatus(mine, "pending"),
           total     |-> CountStatus(mine, "completed") + CountStatus(mine, "pending")] :
      cid \in { task.clientId : task \in list } }

\* a render of TasksReport
TasksReportRender ==
    /\ trReport' = { [report |-> TasksCalculateReport(trTasks),
                      clientStats |-> getTasksByClient(trTasks)] }
    /\ UNCHANGED <<trTasks, irInvoices, irReport>>

\* the Reports page passes a newly fetched list
TasksReportProps(list) ==
    /\ list # trTasks
    /\ trTasks' = list
    /\ trReport' = {}
    /\ UNCHANGED <<irInvoices, irReport>>

TaskTotalsNext ==
    \/ TasksReportRender /\ TotalsOnly
    \/ \E list \in PageTaskSets : TasksReportProps(list) /\ TotalsOnly

vars == <<storeVars, reportVars, filterVars, nameVars, accountVars, csvVars, routeVars,
          totalsVars>>

Init == StoreInit /\ ReportsIdle /\ FilterIdle /\ NamesIdle /\ AccountIdle /\ CsvIdle /\ RouteIdle
          /\ TotalsIdle

Spec == Init /\ [][Next]_vars

InitReports == ReportsInit /\ StoreIdle /\ FilterIdle /\ NamesIdle /\ AccountIdle /\ CsvIdle /\ RouteIdle
          /\ TotalsIdle

SpecReports == InitReports /\ [][ReportsNext]_vars

InitFilter == FilterInit /\ StoreIdle /\ ReportsIdle /\ NamesIdle /\ AccountIdle /\ CsvIdle /\ RouteIdle
          /\ TotalsIdle

SpecFilter == InitFilter /\ [][FilterNext]_vars

InitNames == NamesInit /\ StoreIdle /\ ReportsIdle /\ FilterIdle /\ AccountIdle /\ CsvIdle /\ RouteIdle
          /\ TotalsIdle

SpecNames == InitNames /\ [][NamesNext]_vars

InitAccount == AccountInit /\ StoreIdle /\ ReportsIdle /\ FilterIdle /\ NamesIdle /\ CsvIdle /\ RouteIdle
          /\ TotalsIdle

SpecAccount == InitAccount /\ [][AccountNext]_vars

InitCsv == CsvInit /\ StoreIdle /\ ReportsIdle /\ FilterIdle /\ NamesIdle /\ AccountIdle
             /\ RouteIdle /\ TotalsIdle

SpecCsv == InitCsv /\ [][CsvNext]_vars

InitExport == StoreIdle /\ ReportsIdle /\ FilterIdle /\ NamesIdle /\ AccountIdle
                /\ CsvIdle /\ RouteIdle /\ TotalsIdle

SpecExport == InitExport /\ [][ExportNext]_vars

InitRoute == RouteInit /\ StoreIdle /\ ReportsIdle /\ FilterIdle /\ NamesIdle /\ AccountIdle
               /\ CsvIdle /\ TotalsIdle

InitTotals == StoreIdle /\ ReportsIdle /\ FilterIdle /\ NamesIdle /\ AccountIdle
                /\ CsvIdle /\ RouteIdle /\ TotalsInit

SpecTotals == InitTotals /\ [][TotalsNext]_vars

SpecTaskTotals == InitTotals /\ [][TaskTotalsNext]_vars

SpecRoute == InitRoute /\ [][RouteNext]_vars

\* ------------------------------------------------------------------------
\* Claims over the pages and the store (Spec)
\* ------------------------------------------------------------------------
PageLists == clients \cup tasks \cup timeEntries \cup invoices

AllDocs == UNION { db[c] : c \in Collections }

\* C1: every list a page holds for the signed-in user contains only
\* documents created by that user.
C1_ReadsIsolated == \A d \in PageLists : d.creator = user

\* C2: every document a page created is stored with a userId equal to the
\* uid of the user who created it, and stays so under every update.
C2_WritesScoped ==
    \A d \in AllDocs : d.origin = "app" => UserIdOf(d) = d.creator

\* C3: every remote call that failed in the last operation produced a
\* user-visible notification (none was only logged).
C3_FailuresNotified == \A f \in last.failed : f \notin last.silent

DashboardDone ==
    /\ page = "dashboard"
    /\ last.op = "Dashboard.fetchDashboardData"
    /\ last.failed = {}

UnpaidInvoices(u) ==
    { i \in db["invoices"] : UserIdOf(i) = u /\ i.status = "Unpaid" }

\* C7: after the dashboard fetch completes, Pending Invoices is the number
\* and the displayed amount the sum of the totals of the user's invoices
\* whose status is Unpaid.
C7_PendingInvoices ==
    DashboardDone =>
        /\ stats.pendingInvoices = Cardinality(UnpaidInvoices(user))
        /\ stats.pendingInvoicesAmount = SumField(UnpaidInvoices(user), "total")

MonthEntries(u) ==
    { e \in db["timeTracking"] : UserIdOf(e) = u /\ e.startTime >= StartOfMonth }

\* minutes to hours rounded to one decimal, in tenths of an hour
MinutesToTenths(m) == (m + 3) \div 6

\* C8: after the dashboard fetch completes, Hours Tracked is the logged time
\* (hours, one decimal) of the user's entries dated in the current month.
C8_HoursTracked ==
    DashboardDone =>
        stats.hoursTracked = MinutesToTenths(SumField(MonthEntries(user), "duration"))

Referencing(store, id) ==
    { d \in store["tasks"] \cup store["timeTracking"] \cup store["invoices"] :
        d.clientId = id }

\* C10: a step of Clients.handleDelete issues exactly one remote delete, of
\* the chosen client document, and leaves tasks, time entries and invoices
\* as they were, so the records that reference the client keep its id.
C10_DeleteClientFrame ==
    [][ last'.op = "Clients.handleDelete" =>
          /\ Len(last'.writes) = 1
          /\ last'.writes[1].kind = "deleteDoc"
          /\ last'.writes[1].coll = "clients"
          /\ last'.writes[1].id \in Ids(clients)
          /\ db'["tasks"] = db["tasks"]
          /\ db'["timeTracking"] = db["timeTracking"]
          /\ db'["invoices"] = db["invoices"]
          /\ db'["clients"] \in
               { db["clients"],
                 { c \in db["clients"] : c.id # last'.writes[1].id } }
          /\ (last'.failed = {} =>
                /\ ~Exists(db', "clients", last'.writes[1].id)
                /\ Referencing(db', last'.writes[1].id)
                     = Referencing(db, last'.writes[1].id)) ]_vars

C10_Witness ==
    /\ last.op = "Clients.handleDelete"
    /\ last.failed = {}
    /\ ~Exists(db, "clients", last.writes[1].id)
    /\ \E t \in db["tasks"], e \in db["timeTracking"] :
          t.clientId = last.writes[1].id /\ e.clientId = last.writes[1].id

\* the operations that update or delete a record the page holds
GuardedOps == {"Invoices.handleEdit", "Invoices.handleSubmit", "Invoices.handleDelete",
               "Invoices.handleStatusUpdate", "Tasks.handleEditTask",
               "Tasks.handleDeleteTask"}

\* the stored record a remote write targets
Target(store, w) == { d \in store[w.coll] : d.id = w.id }

\* C14: a step of an edit, delete or status update on the Invoices and Tasks
\* pages issues an updateDoc or deleteDoc only on a record whose userId is
\* the signed-in user's uid; a refused step shows an error, issues no remote
\* write and leaves the store unchanged.
C14_OwnershipBeforeWrite ==
    [][ last'.op \in GuardedOps =>
          /\ \A i \in DOMAIN last'.writes :
                last'.writes[i].kind \in {"updateDoc", "deleteDoc"} =>
                  \A d \in Target(db, last'.writes[i]) : UserIdOf(d) = user
          /\ Has(last', "notice") => (last'.writes = <<>> /\ db' = db) ]_vars

\* C15: no two stored invoices of the same user carry the same invoiceNumber.
C15_InvoiceNumbersUnique ==
    \A i, j \in db["invoices"] :
        (i.id # j.id /\ UserIdOf(i) = UserIdOf(j)) => i.invoiceNumber # j.invoiceNumber

\* what the manual-entry rule asks of a step that handles the form values
\* start and end = start + length
ManualEntryRule(start, end) ==
    /\ (last'.writes # <<>>) <=> (end > start)
    /\ ~(end > start) => /\ Has(last', "notice") /\ last'.notice = "error"
                         /\ db' = db /\ timeEntries' = timeEntries
    /\ (last'.writes # <<>> /\ last'.failed = {}) =>
          \A e \in Target(db', last'.writes[1]) :
              /\ e.startTime = start /\ e.endTime = end
              /\ e.duration = (end - start) \div 60000

\* C16: handleAddEntry and handleEditEntry issue their remote write exactly
\* when the end time is after the start time; otherwise they show an error,
\* write nothing and leave the store and the entry list unchanged; a written
\* entry has duration floor((end - start) / 60000).
C16_ManualEntryValidation ==
    [][ \A start \in StartInputs, length \in LengthInputs, ok \in BOOLEAN,
           taskId \in Ids(tasks), cid \in Ids(clients) :
          /\ HandleAddEntry(taskId, cid, start, length, ok) =>
                ManualEntryRule(start, start + length)
          /\ \A e \in timeEntries :
                HandleEditEntry(e, taskId, cid, start, length, ok) =>
                  ManualEntryRule(start, start + length) ]_vars

\* the stored entries of user u that have no endTime
RunningEntries(store, u) ==
    { e \in store["timeTracking"] : UserIdOf(e) = u /\ ~Has(e, "endTime") }

\* C17: at most one of the signed-in user's stored time entries has no
\* endTime, and a start request made while the page holds an active timer
\* is refused with a warning and creates no entry.
C17_AtMostOneRunningTimer ==
    /\ [](user \in Users => Cardinality(RunningEntries(db, user)) <= 1)
    /\ [][ \A taskId \in Ids(tasks), ok \in BOOLEAN :
             (activeTimer # {} /\ StartTimer(taskId, ok)) =>
                 /\ Has(last', "notice") /\ last'.notice = "warning"
                 /\ db' = db ]_vars

\* what stopping asks of a step of handleStopTimer
StopTimerRule ==
    IF activeTimer = {}
      THEN /\ last'.writes = <<>>
           /\ db' = db /\ timeEntries' = timeEntries /\ activeTimer' = {}
      ELSE LET a == CHOOSE e \in activeTimer : TRUE
           IN  IF last'.failed = {}
                 THEN /\ \E d \in db'["timeTracking"] :
                            /\ d.id = a.id
                            /\ Has(d, "endTime") /\ d.endTime >= d.startTime
                            /\ d.duration = (d.endTime - d.startTime) \div 60000
                      /\ a.id \notin Ids(activeTimer')
                 ELSE db' = db /\ activeTimer' = activeTimer

C19_RouteProtection ==
    /\ RouteRender = "children" => (~ctxLoading /\ ctxUser # Null)
    /\ (mounted /\ ~ctxLoading /\ ctxUser = Null) =>
          /\ RouteRender # "children"
          /\ effectDeps = <<ctxUser, ctxLoading>> => "ProtectedRoute" \in pushed

\* a signed-in user's page has been left by a sign-out: the user is null,
\* the route shows nothing and has pushed /login
C19_Witness ==
    /\ mounted /\ ~ctxLoading /\ ctxUser = Null /\ ~checking
    /\ authChanges > 0 /\ fbUser = Null
    /\ RouteRender = "null"
    /\ "ProtectedRoute" \in pushed

\* the sum of the billed sums (field total) of the invoices of one status
BilledSum(invs, status) == SumField({ inv \in invs : inv.status = status }, "total")

\* C20: for invoices stored by the Invoices page, calculateReport returns
\* total = paid + unpaid + Overdue, each part being the sum billed on the
\* invoices of that payment status.
C20_ReportTotals ==
    \A r \in irReport :
        /\ JsEq(r.total, JsAdd(JsAdd(r.paid, r.unpaid), r.Overdue))
        /\ JsEq(r.paid, Num(BilledSum(irInvoices, "Paid")))
        /\ JsEq(r.unpaid, Num(BilledSum(irInvoices, "Unpaid")))
        /\ JsEq(r.Overdue, Num(BilledSum(irInvoices, "Overdue")))

\* C21: for tasks stored by the Tasks page, calculateReport returns
\* completed + pending = total, and every client group of getTasksByClient
\* has completed + pending equal to the number of that client's tasks.
C21_TaskReportTotals ==
    \A r \in trReport :
        /\ r.report.completed + r.report.pending = r.report.total
        /\ \A g \in r.clientStats :
              g.completed + g.pending =
                  Cardinality({ task \in trTasks : task.clientId = g.clientId })

\* C22: the Reports page shows 'CSV exported successfully' only when
\* exportToCSV produced a download, and 'PDF exported successfully' only
\* when exportToPDF opened the print window.
C22_ExportSuccessOnlyOnExport ==
    xpLast.notice \in {"CSV exported successfully", "PDF exported successfully"} =>
        xpLast.exported

\* C23: a handleExportPDF step leaves the Reports page's arrays with the
\* same elements in the same order.
C23_ExportToPDFFrame ==
    [][ \A opened \in BOOLEAN : HandleExportPDF(opened) => xpData' = xpData ]_vars

\* the stored clients that user u created through the Clients page
CreatedClients(store, u) ==
    { d \in store["clients"] : d.origin = "app" /\ d.creator = u }

\* C26: when the Tasks page has loaded its clients for the signed-in user,
\* every client that user created through the Clients page is in the page's
\* client list and passes handleAddTask's client check.
C26_CreatedClientUsable ==
    (page = "tasks" /\ last.op = "Tasks.mount" /\ "Tasks.fetchClients" \notin last.failed) =>
        \A d \in CreatedClients(db, user) : d.id \in Ids(clients) /\ ValidClient(d.id)

ArithmeticHolds(inv) ==
    /\ \A i \in DOMAIN inv.items :
          inv.items[i].amount = inv.items[i].quantity * inv.items[i].rate
    /\ inv.total = SumAmounts(inv.items)

\* C13: every stored invoice has amount = quantity * rate on each line item
\* and total = the sum of the amounts, and a status update changes nothing of
\* an invoice but its status and nothing of any other invoice.
C13_InvoiceArithmetic ==
    /\ [](\A inv \in db["invoices"] : ArithmeticHolds(inv))
    /\ [][ (last'.op = "Invoices.handleStatusUpdate" /\ last'.failed = {}
             /\ last'.writes # <<>>) =>
              /\ Ids(db'["invoices"]) = Ids(db["invoices"])
              /\ \A old \in db["invoices"] : \E new \in db'["invoices"] :
                    /\ new.id = old.id
                    /\ new.items = old.items
                    /\ new.total = old.total
                    /\ old.id # last'.writes[1].id => new = old ]_vars

\* a status update has set a two-item invoice of total 7 to Paid
C13_Witness ==
    /\ last.op = "Invoices.handleStatusUpdate"
    /\ last.failed = {}
    /\ last.writes # <<>>
    /\ \E inv \in db["invoices"] :
          /\ inv.id = last.writes[1].id
          /\ Len(inv.items) = 2
          /\ inv.total = 7
          /\ inv.status = "Paid"

\* ------------------------------------------------------------------------
\* Claims over the Reports page (SpecReports)
\* ------------------------------------------------------------------------
\* C4: once no fetch is in flight and none has failed, the invoices, time
\* entries and tasks in state are the results of the query for the selected
\* date range and client.
C4_SettledShowsSelection ==
    (inflight = {} /\ ~anyFailed) =>
        /\ rInvoices = ReportQuery(ReportStore, "invoices", ReportUser,
                                    dateRange, selectedClient)
        /\ rTimeEntries = ReportQuery(ReportStore, "timeTracking", ReportUser,
                                    dateRange, selectedClient)
        /\ rTasks = ReportQuery(ReportStore, "tasks", ReportUser,
                                    dateRange, selectedClient)

\* ------------------------------------------------------------------------
\* Claims over the Time Tracking filtered view (SpecFilter)
\* ------------------------------------------------------------------------
\* C5: whenever no effect is pending, the displayed filtered list is the
\* filter predicate applied to the current entries, filter inputs and
\* lookup lists.
C5_FilteredViewCurrent ==
    ~effectPending =>
        filteredEntries = applyFilters(fEntries, fTasks, fClients, searchText,
                                       fDateRange, filterClient, filterTask)

\* ------------------------------------------------------------------------
\* Claims over client names on display (SpecNames)
\* ------------------------------------------------------------------------
\* C6: every place renders the client's name for a clientId found in the
\* fetched list and exactly "Unknown Client" for one that is not.
C6_UnknownClientEverywhere ==
    nPlace # "none" =>
        nShown = IF find(nClients, nRecord.clientId) # {}
                 THEN NameOf(find(nClients, nRecord.clientId))
                 ELSE "Unknown Client"

\* ------------------------------------------------------------------------
\* Claims over registration and profile (SpecAccount)
\* ------------------------------------------------------------------------
IsError(msg) == \E m \in msg : m.type = "error"

\* a file the picture rule admits: smaller than 5 MB and of an image type
Admissible(file) == file.size < 5 * 1024 * 1024 /\ IsImage(file)

\* C25: the timer started by a successful save removes only that save's
\* success message, never an error message set by a later action.
C25_TimerClearsOnlySuccess ==
    [][ MessageTimeout => ~IsError(profMessage) ]_vars

\* C24: handleFileSelect sets selectedFile to the file only if the file is
\* smaller than 5 MB and its type starts with 'image/'; for any other file
\* it sets an error message and leaves selectedFile unchanged; so the
\* selected file, which handleSubmit uploads, is never a rejected one.
C24_PictureValidation ==
    /\ [](\A f \in selectedFile : Admissible(f))
    /\ [][ \A file \in FileInputs :
             HandleFileSelect(file) =>
                 IF Admissible(file)
                   THEN selectedFile' = {file}
                   ELSE selectedFile' = selectedFile /\ IsError(profMessage') ]_vars

\* C9: when the users document write fails after the earlier steps of
\* Register.onFinish or Profile.handleSubmit succeeded, the step keeps the
\* account, the uploaded picture and the updated auth profile, leaves the
\* users collection and the local profile state as they were, shows an error,
\* ends the handler without another attempt and sets loading to false.
C9_NoPartialFailureRecovery ==
    [][ /\ (pc = "reg.setDoc" /\ pc' # pc /\ aLast'.failedAt = "setDoc") =>
              /\ accounts' = accounts /\ held.email \in accounts'
              /\ authUser' = authUser /\ authUser' # {}
              /\ usersDocs' = usersDocs
              /\ profile' = profile
              /\ IsError(notice')
              /\ regLoading' = FALSE
              /\ pc' = "idle"
        /\ (pc = "prof.setDoc" /\ pc' # pc /\ aLast'.failedAt = "setDoc") =>
              /\ storageFiles' = storageFiles
              /\ held.file # {} => held.photoURL \in storageFiles'
              /\ authUser' = authUser
              /\ \A a \in authUser' : /\ a.displayName = held.displayName
                                      /\ a.photoURL = held.photoURL
              /\ usersDocs' = usersDocs
              /\ profile' = profile
              /\ selectedFile' = selectedFile
              /\ IsError(profMessage')
              /\ profLoading' = FALSE
              /\ pc' = "idle" ]_vars

\* both cases in one run: registration lost its users document (the account
\* exists, the collection is empty) and a profile submit with an uploaded
\* picture then failed at its users document write
C9_Witness ==
    /\ accounts # {}
    /\ usersDocs = {}
    /\ aLast = [op |-> "Profile.handleSubmit", failedAt |-> "setDoc", uploaded |-> TRUE]
    /\ storageFiles # {}
    /\ IsError(profMessage)
    /\ ~profLoading

\* ------------------------------------------------------------------------
\* Claims over the CSV exports (SpecCsv)
\* ------------------------------------------------------------------------
\* an RFC 4180 reader: fields separated by commas, records by line breaks,
\* a field in double quotes may hold commas, line breaks and doubled quotes
RECURSIVE ParseCsvFrom(_, _, _, _, _)
ParseCsvFrom(text, inQuotes, field, record, records) ==
    IF text = <<>> THEN records \o <<record \o <<field>>>>
    ELSE LET ch == Head(text)
             rest == Tail(text)
         IN  IF inQuotes
             THEN IF ch = Quote
                  THEN IF rest # <<>> /\ Head(rest) = Quote
                       THEN ParseCsvFrom(Tail(rest), TRUE, field \o <<Quote>>, record, records)
                       ELSE ParseCsvFrom(rest, FALSE, field, record, records)
                  ELSE ParseCsvFrom(rest, TRUE, field \o <<ch>>, record, records)
             ELSE IF ch = Quote /\ field = <<>>
                  THEN ParseCsvFrom(rest, TRUE, field, record, records)
             ELSE IF ch = Comma
                  THEN ParseCsvFrom(rest, FALSE, <<>>, record \o <<field>>, records)
             ELSE IF ch = LF
                  THEN ParseCsvFrom(rest, FALSE, <<>>, <<>>, records \o <<record \o <<field>>>>)
             ELSE IF ch = CR
                  THEN ParseCsvFrom(IF rest # <<>> /\ Head(rest) = LF THEN Tail(rest) ELSE rest,
                                    FALSE, <<>>, <<>>, records \o <<record \o <<field>>>>)
             ELSE ParseCsvFrom(rest, FALSE, field \o <<ch>>, record, records)

ParseCsv(text) == ParseCsvFrom(text, FALSE, <<>>, <<>>, <<>>)

\* C11: reading the text exportToCSV produced gives the header record and
\* then one record per row, each field the String() of the row's value.
C11_CsvRoundTrip ==
    csvOp = "exportToCSV" =>
        ParseCsv(csvText) =
            <<CsvHeaders>> \o [r \in 1..Len(csvData) |->
                                 [h \in 1..Len(CsvHeaders) |-> StringOf(csvData[r][h])]]

\* C12: the text handleExport produced reads as the header record of six
\* columns and then one record of six fields per filtered entry.
C12_ExportSixFields ==
    csvOp = "TimeTracking.handleExport" =>
        /\ Len(ParseCsv(csvText)) = 1 + Len(xEntries)
        /\ ParseCsv(csvText)[1] = ExportColumns
        /\ \A i \in 1..Len(ParseCsv(csvText)) : Len(ParseCsv(csvText)[i]) = 6

====
